---- MODULE Spec2Model ----
(***************************************************************************)
(* A model of the syncer file synchronisation platform: the client sync    *)
(* engine (src/client/sync_engine.py), the server's HTTP handlers          *)
(* (src/server/main.py), its metadata store (src/server/file_manager.py)   *)
(* and its fan-out hub (src/server/websocket_manager.py).                  *)
(*                                                                         *)
(* The specifications share the variables:                                 *)
(*   Spec        the initial bulk synchronisation over HTTP                *)
(*   SpecNotify  uploads and the server's fan-out over the message channel *)
(*   SpecConn    the connection life cycle of one client engine            *)
(*   SpecStop    a client process that is stopped, and stopped again       *)
(*   SpecBackoff the delay of a reconnect attempt                          *)
(*   SpecWatch   the watcher's event handler and its delayed tasks         *)
(*   SpecHub     the hub's registry, one broadcast send by send            *)
(*   SpecStore   the metadata store's rows and the cache in front of them   *)
(*   SpecHistory the sync history and the conflicts read from it            *)
(*   SpecServer  the server's client records                                *)
(*   SpecDelete  the delete handler through its broadcast                   *)
(*   SpecDownload one download_file call, request by request                *)
(*   SpecPool    the metadata store's connection pool                       *)
(*   SpecBulk    the transfers of the bulk synchronisation, task by task    *)
(*   SpecDiff    signatures, deltas and their application (shared/diff.py)  *)
(*   SpecRejoin  the hub's registry when a client connects again            *)
(*   SpecResume  one download_file call over files of bytes                 *)
(***************************************************************************)
EXTENDS Integers, Sequences, FiniteSets, TLC

\* ---------------------------------------------------------------- bounds
\* The latest instant of the modelled time line; modified_time values are
\* drawn from 1..MaxTime and a write during the run is stamped Now.
MaxTime == 2
Now == MaxTime
\* Number of transports the client engine may open in one behaviour.
MaxConns == 2
\* Number of concurrent sync_file calls (watcher callbacks) of one engine.
NumSenders == 1
\* Number of equal steps the jitter interval [0, delay * 0.1] is sampled at.
JitterSteps == 10
\* The watcher's time line: clock values 0..MaxClock, in units of 0.05 s.
MaxClock == 8
\* Number of file system events in one behaviour.
MaxEvents == 3
\* Number of bad messages (malformed JSON, unknown type) one receiver gets.
MaxBad == 1

Clients == {"A", "B"}
\* client ids the hub has seen: an origin and two peers
HubClients == {"A", "B", "C"}
Paths == {"a", "b"}
\* File contents are abstract values; 0 stands for "no such file".
Contents == {1, 2}
NoFile == 0

\* sync_engine.py:68  self._max_reconnect_attempts = 10
max_reconnect_attempts == 10
\* sync_engine.py:69-70, in seconds
base_reconnect_delay == 1
max_reconnect_delay == 60

\* ------------------------------------------------------------- variables
VARIABLES
    \* --- environment
    xxhash,          \* BOOLEAN: "import xxhash" succeeds on the server host
    sync_root,       \* per client: what sync_directory / sync_root names on the server host
    \* --- server
    srvDisk,         \* [Paths -> content]: files under the server's sync_directory
    srvMtime,        \* [Paths -> time]: st_mtime of those files
    srvMeta,         \* set of FileInfo: rows of the file_metadata table
    active_connections, \* WebSocketManager.active_connections (client ids)
    wsInbox,         \* per client: messages the server has sent and the client has not handled
    upload_log,      \* history of the /upload requests the server has handled
    \* --- clients (files)
    cliDisk,         \* per client: [Paths -> content], the local sync directory
    cliMtime,
    syncPc,          \* per client: position inside perform_initial_sync
    local_files,     \* per client: the argument of perform_initial_sync
    server_files,    \* per client: sync_files' server_files when it planned
    files_to_sync,   \* per client: SyncResponse.files_to_sync
    conflicts,       \* per client: SyncResponse.conflicts
    download_tasks,  \* per client: paths whose download_file has not run yet
    upload_tasks,    \* per client: paths whose upload_file has not run yet
    downloaded,      \* per client: paths download_file has written (200/206)
    \* --- one client engine (connection life cycle)
    websocket,       \* self.websocket: 0 (None) or a transport id
    conn,            \* [1..MaxConns -> state of that transport]
    is_connected,
    should_reconnect,
    reconnect_attempts,
    listen,          \* [1..MaxConns -> state of the listen task started for it]
    heartbeat_task,  \* state of self.heartbeat_task
    hbWs,            \* transport the heartbeat loop is sending on (0: none)
    reconnect_task,  \* state of self._reconnect_task
    sendPc,          \* [1..NumSenders -> position of a sync_file call]
    sendWs,          \* [1..NumSenders -> transport that call is sending on]
    apiPc,           \* position of the caller of start / force_reconnect / stop
    connecting,      \* per connector: the transport its handshake send is on (0: none)
    \* --- the client process: its file watcher and its shutdown
    is_running,      \* FileWatcher.is_running
    observer,        \* FileWatcher.observer: "none", "alive" or "stopped"
    cleanup_task,    \* FileWatcher._cleanup_task: "none", "running" or "done"
    stop_again,      \* SyncClient.stop() was called on a stopped client
    stop_raised,     \* a stop() call raised
    \* --- locals of _reconnect_websocket
    delay,           \* seconds, before jitter (0: not computed)
    jittered_delay,  \* hundredths of a second
    \* --- SyncEventHandler (one watched directory)
    clock,           \* time.time(), in units of 0.05 s
    watched,         \* [Paths -> version of the file on disk, 0: no file]
    event_log,       \* the file system events so far, in order
    pending_events,  \* [Paths -> the stored event info, id 0: no entry]
    last_event_time, \* [Paths -> clock value, -1: no entry]
    tasks,           \* the _delayed_sync tasks that are asleep
    callbacks,       \* the calls of sync_callback so far, in order
    task_errors,     \* ids of the _delayed_sync tasks that ended with an exception
    \* --- WebSocketManager, one broadcast followed send by send
    registry,        \* the keys of active_connections, in insertion order
    sock,            \* [HubClients -> "none", "open" or "broken"]: the transport to the client
    srv_loop,        \* [HubClients -> state of websocket_endpoint's receive loop]
    bc,              \* the broadcast_to_others call that is followed
    attempted,       \* clients a send of that broadcast was made to
    unregistered,    \* clients that broadcast has unregistered
    bc_raised,       \* that broadcast raised
    srv_dropped,     \* [HubClients -> bad messages the server has received from the client]
    cli_loop,        \* state of one client's _listen_websocket loop
    cli_dropped,     \* bad messages that client has received
    \* --- FileManager: metadata cache in front of the file_metadata table
    metadata_cache,  \* [Paths -> {} or {[info, cache_time]}]: self._metadata_cache
    store_time,      \* time.time(), in seconds
    got,             \* the last get_file_metadata call: what it returned and saw
    last_write,      \* [Paths -> the last call that wrote the path's row]
    sync_history,    \* the rows of the sync_history table
    \* --- SyncServer
    clients,         \* the keys of SyncServer.clients (client_id -> ClientInfo)
    del_call,        \* the DELETE /files request that is followed
    delete_calls,    \* [Paths -> DELETE /files requests answered for the path]
    \* --- FileManager: connection pool
    db_initialized,  \* self._initialized
    db_connections,  \* len(self._db_connections): the connections that lie in the pool
    db_held,         \* the callers that are inside "async with _get_db_connection()"
    \* --- SyncEngine: one download_file call, one perform_initial_sync call
    dl,              \* the download_file call that is followed
    bulk_pc,         \* position of perform_initial_sync
    bulk_downloads,  \* the files of download_tasks
    bulk_uploads,    \* the files upload_tasks is built from
    dtask,           \* [Files -> state of the file's download_with_semaphore]
    utask,           \* [Files -> state of the file's upload_with_semaphore]
    \* --- DifferentialSync: one signature, one delta, one apply_delta call
    fileA,           \* the bytes of the file a delta is made of
    fileB,           \* the bytes of the reference file
    target_file,     \* the bytes at apply_delta's target_file, Absent: no file
    temp_file,       \* the bytes at target_file + ".tmp", Absent: no file
    signature,       \* the create_signature call that was made
    delta,           \* the create_delta call that was made
    applied,         \* the apply_delta call that was made: its source file, the
                     \* operation that failed, the target before it, its result
    \* --- the hub's registry, connection by connection
    endpoints,       \* the websocket_endpoint calls so far, in order of accept
    connection_of,   \* [Clients -> index of active_connections[client_id], 0: no key]
    \* --- download_file over files of bytes
    local_bytes,     \* the bytes of the local file, Absent: no file
    server_bytes,    \* the bytes of the server's file
    get             \* the download_file call that is followed

hostVars == <<xxhash, sync_root>>
watcherVars == <<is_running, observer, cleanup_task>>
clientVars == <<watcherVars, stop_again, stop_raised>>
\* what no handler of the server and no task of the engine writes
backoffVars == <<delay, jittered_delay>>
handlerVars == <<clock, watched, event_log, pending_events, last_event_time,
                 tasks, callbacks, task_errors>>
managerVars == <<registry, sock, srv_loop, bc, attempted, unregistered,
                 bc_raised, srv_dropped, cli_loop, cli_dropped>>
storeVars == <<metadata_cache, store_time, got, last_write>>
historyVars == <<sync_history>>
deleteVars == <<del_call, delete_calls>>
serverVars == <<clients, deleteVars>>
poolVars == <<db_initialized, db_connections, db_held>>
dlVars == <<dl>>
bulkVars == <<bulk_pc, bulk_downloads, bulk_uploads, dtask, utask>>
transferVars == <<dlVars, bulkVars>>
diffVars == <<fileA, fileB, target_file, temp_file, signature, delta, applied>>
rejoinVars == <<endpoints, connection_of>>
resumeVars == <<local_bytes, server_bytes, get>>
libVars == <<diffVars, rejoinVars, resumeVars>>
serviceVars == <<storeVars, historyVars, serverVars, poolVars, transferVars,
                 libVars>>
envVars == <<hostVars, clientVars, backoffVars, handlerVars, managerVars,
             serviceVars>>
srvVars == <<srvDisk, srvMtime, srvMeta, upload_log>>
cliVars == <<cliDisk, cliMtime, downloaded>>
syncVars == <<syncPc, local_files, server_files, files_to_sync, conflicts,
              download_tasks, upload_tasks>>
fileVars == <<envVars, srvVars, cliVars, syncVars>>
hubVars == <<active_connections, wsInbox>>
connVars == <<websocket, conn, is_connected, should_reconnect, reconnect_attempts,
              listen, heartbeat_task, hbWs, reconnect_task, sendPc, sendWs,
              apiPc, connecting>>
vars == <<fileVars, hubVars, connVars>>

\* ------------------------------------------------------------ file model
\* A checksum identifies the content and the algorithm that produced it:
\* sha256 (utils.calculate_file_checksum) and xxh64
\* (utils.calculate_file_checksum_fast) never give the same string.
Checksum(alg, content) == <<alg, content>>

\* get_file_info(path) with the default fast_checksum=False
ClientAlg == "sha256"
\* calculate_file_checksum_fast: xxh64 when xxhash imports, else sha256
ServerScanAlg == IF xxhash THEN "xxh64" ELSE "sha256"

FileInfo(p, alg, content, mtime) ==
    [path |-> p, checksum |-> Checksum(alg, content), modified_time |-> mtime]

PathsOf(files) == {f.path : f \in files}

\* The manifest of a client's directory, as passed to perform_initial_sync.
LocalManifest(c) ==
    {FileInfo(p, ClientAlg, cliDisk[c][p], cliMtime[c][p]) :
        p \in {q \in Paths : cliDisk[c][q] # NoFile}}

\* FileManager.get_file_list, fallback branch: os.walk of
\* sync_directory / base_path, where base_path is the CLIENT's sync_root.
\*   "dot"     the joined path is the server's own directory
\*   "missing" the joined path does not exist on the server host
\*   "foreign" the joined path is the client's directory on the same host
ScanRaises(c) == sync_root[c] = "foreign" /\ LocalManifest(c) # {}
ScanFiles(c) ==
    IF sync_root[c] = "dot"
    THEN {FileInfo(p, ServerScanAlg, srvDisk[p], srvMtime[p]) :
            p \in {q \in Paths : srvDisk[q] # NoFile}}
    ELSE {}

\* FileManager.get_file_list: the rows of file_metadata when there are any,
\* otherwise the scan, which is then stored as the new baseline.
get_file_list(c) == IF srvMeta # {} THEN srvMeta ELSE ScanFiles(c)
get_file_list_raises(c) == srvMeta = {} /\ ScanRaises(c)

\* SyncServer.sync_files, first loop: the client's files.
ServerFile(sfiles, p) == {f \in sfiles : f.path = p}
PlanConflicts_OlderServer(cfiles, sfiles) ==
    {cf.path : cf \in {f \in cfiles :
        \E sf \in ServerFile(sfiles, f.path) :
            /\ sf.checksum # f.checksum
            /\ sf.modified_time < f.modified_time}}
PlanConflicts(cfiles, sfiles) ==
    {cf.path : cf \in {f \in cfiles :
        \E sf \in ServerFile(sfiles, f.path) :
            /\ sf.checksum # f.checksum
            /\ sf.modified_time > f.modified_time}}
PlanPush_SkipsNew(cfiles, sfiles) ==
    {cf \in cfiles :
        \E sf \in ServerFile(sfiles, cf.path) :
              /\ sf.checksum # cf.checksum
              /\ ~(sf.modified_time > cf.modified_time)}
PlanPush(cfiles, sfiles) ==
    {cf \in cfiles :
        \/ ServerFile(sfiles, cf.path) = {}
        \/ \E sf \in ServerFile(sfiles, cf.path) :
              /\ sf.checksum # cf.checksum
              /\ ~(sf.modified_time > cf.modified_time)}
\* the second loop without its test
PlanPull_All(cfiles, sfiles) == sfiles
\* second loop: the server's files the client does not list.
PlanPull(cfiles, sfiles) == {sf \in sfiles : sf.path \notin PathsOf(cfiles)}
PlanFilesToSync(cfiles, sfiles) == PlanPush(cfiles, sfiles) \cup PlanPull(cfiles, sfiles)

\* ------------------------------------------------------ server handlers
\* SyncServer.upload_file (POST /upload) for content sent by client c.
\* The bytes are written to sync_directory/relative_path.  get_file_info
\* is a coroutine function and is called without await, so file_info is a
\* coroutine object: it is truthy and FileInfo(**file_info) raises
\* TypeError.  The handler leaves through "except Exception" with status
\* 500: update_file_metadata and broadcast_to_others are never reached.
upload_status == 500
ServerUpload(c, p, content) ==
    /\ srvDisk' = [srvDisk EXCEPT ![p] = content]
    /\ srvMtime' = [srvMtime EXCEPT ![p] = Now]
    /\ upload_log' = upload_log \cup
          {[client |-> c, path |-> p, content |-> content,
            status |-> upload_status, peers |-> active_connections \ {c}]}
    /\ UNCHANGED <<srvMeta, active_connections, wsInbox>>

\* SyncServer.download_file (GET /download/{path}) without a Range header.
DownloadStatus(p) == IF srvDisk[p] = NoFile THEN 404 ELSE 200

\* ---------------------------------------------- SyncEngine: bulk sync
\* perform_initial_sync up to the first suspension after the response:
\* POST /sync, SyncServer.sync_files plans, the download tasks are built.
PerformInitialSync(c) ==
    /\ syncPc[c] = "idle"
    /\ local_files' = [local_files EXCEPT ![c] = LocalManifest(c)]
    /\ IF get_file_list_raises(c)
       THEN \* HTTP 500 -> ServerError is raised
            /\ syncPc' = [syncPc EXCEPT ![c] = "error"]
            /\ UNCHANGED <<srvMeta, server_files, files_to_sync, conflicts,
                           download_tasks>>
       ELSE LET sf == get_file_list(c)
                lf == LocalManifest(c)
                fts == PlanFilesToSync(lf, sf)
            IN /\ srvMeta' = sf
               /\ server_files' = [server_files EXCEPT ![c] = sf]
               /\ files_to_sync' = [files_to_sync EXCEPT ![c] = fts]
               /\ conflicts' = [conflicts EXCEPT ![c] = PlanConflicts(lf, sf)]
               /\ download_tasks' = [download_tasks EXCEPT ![c] =
                      {f.path : f \in {g \in fts : cliDisk[c][g.path] = NoFile}}]
               /\ syncPc' = [syncPc EXCEPT ![c] = "downloads"]
    /\ UNCHANGED <<envVars, srvDisk, srvMtime, upload_log, cliVars,
                   upload_tasks, hubVars, connVars>>

\* One download task of the bulk sync: SyncEngine.download_file(p).
\* The local file does not exist, so no Range header is sent (mode "wb").
DownloadFile(c, p) ==
    /\ syncPc[c] = "downloads"
    /\ p \in download_tasks[c]
    /\ download_tasks' = [download_tasks EXCEPT ![c] = @ \ {p}]
    /\ IF DownloadStatus(p) = 200
       THEN /\ cliDisk' = [cliDisk EXCEPT ![c][p] = srvDisk[p]]
            /\ cliMtime' = [cliMtime EXCEPT ![c][p] = Now]
            /\ downloaded' = [downloaded EXCEPT ![c] = @ \cup {p}]
       ELSE \* 404: a warning is logged, nothing is raised
            UNCHANGED cliVars
    /\ UNCHANGED <<envVars, srvVars, syncPc, local_files, server_files,
                   files_to_sync, conflicts, upload_tasks, hubVars, connVars>>

\* After gather() of the downloads: the upload tasks are built from the
\* local files whose path is NOT in files_to_sync.
StartUploads(c) ==
    /\ syncPc[c] = "downloads"
    /\ download_tasks[c] = {}
    /\ upload_tasks' = [upload_tasks EXCEPT ![c] =
          {lf.path : lf \in {f \in local_files[c] :
                                f.path \notin PathsOf(files_to_sync[c])}}]
    /\ syncPc' = [syncPc EXCEPT ![c] = "uploads"]
    /\ UNCHANGED <<envVars, srvVars, cliVars, local_files, server_files,
                   files_to_sync, conflicts, download_tasks, hubVars, connVars>>

\* SyncEngine.upload_file(file_info) and the server's handling of it.
\* A missing local file is skipped; any status but 200 raises ServerError,
\* re-raised as FileOperationError.
ClientUpload(c, p) ==
    IF cliDisk[c][p] = NoFile
    THEN UNCHANGED <<srvVars, hubVars>>
    ELSE ServerUpload(c, p, cliDisk[c][p])
UploadRaises(c, p) == cliDisk[c][p] # NoFile /\ upload_status # 200

\* One upload task of the bulk sync.  gather() re-raises the first failure
\* to perform_initial_sync while the other tasks keep running.
UploadFile(c, p) ==
    /\ syncPc[c] \in {"uploads", "error"}
    /\ p \in upload_tasks[c]
    /\ upload_tasks' = [upload_tasks EXCEPT ![c] = @ \ {p}]
    /\ ClientUpload(c, p)
    /\ syncPc' = [syncPc EXCEPT ![c] = IF UploadRaises(c, p) THEN "error" ELSE @]
    /\ UNCHANGED <<envVars, cliVars, local_files, server_files, files_to_sync,
                   conflicts, download_tasks, connVars>>

\* perform_initial_sync returns normally.
FinishSync(c) ==
    /\ syncPc[c] = "uploads"
    /\ upload_tasks[c] = {}
    /\ syncPc' = [syncPc EXCEPT ![c] = "done"]
    /\ UNCHANGED <<envVars, srvVars, cliVars, local_files, server_files,
                   files_to_sync, conflicts, download_tasks, upload_tasks,
                   hubVars, connVars>>

\* -------------------------------------------------------- initial states
NoFiles == [p \in Paths |-> NoFile]
NoTimes == [p \in Paths |-> 0]
\* A directory: every path is absent, or has a content and an mtime.
DirStates(contents) ==
    {d \in [Paths -> [content : contents \cup {NoFile}, mtime : 0..MaxTime]] :
        \A p \in Paths : (d[p].content = NoFile) <=> (d[p].mtime = 0)}

\* FileWatcher.__init__ (watcher.py:180-192); nothing was stopped yet
InitClient ==
    /\ is_running = FALSE
    /\ observer = "none"
    /\ cleanup_task = "none"
    /\ stop_again = FALSE
    /\ stop_raised = FALSE

InitBackoffIdle ==
    /\ delay = 0
    /\ jittered_delay = 0

\* SyncEventHandler.__init__ (watcher.py:29-43), no file watched
InitHandlerIdle ==
    /\ clock = 0
    /\ watched = [p \in Paths |-> 0]
    /\ event_log = <<>>
    /\ pending_events = [p \in Paths |-> [operation |-> "none", id |-> 0]]
    /\ last_event_time = [p \in Paths |-> -1]
    /\ tasks = {}
    /\ callbacks = <<>>
    /\ task_errors = {}

NoBroadcast == [pc |-> "idle", origin |-> "none", tasks |-> <<>>, results |-> <<>>,
                start |-> <<>>]

\* FileManager.__init__ (file_manager.py:28-30): an empty cache
NoRead == [path |-> "none", info |-> {}, row |-> {}, age |-> -1, last |-> "none"]
InitStoreIdle ==
    /\ metadata_cache = [p \in Paths |-> {}]
    /\ store_time = 0
    /\ got = NoRead
    /\ last_write = [p \in Paths |-> "none"]

NoDelete == [pc |-> "idle", path |-> "none", status |-> 0]
\* FileManager.__init__ (file_manager.py:23-26): an empty pool
InitPoolIdle ==
    /\ db_initialized = FALSE
    /\ db_connections = 0
    /\ db_held = {}
NoDownload == [pc |-> "idle", path |-> "none", resume |-> TRUE, requests |-> 0,
               retries |-> 0, range |-> -1]
MaxFiles == 4
Files == 1..MaxFiles
InitBulkIdle ==
    /\ bulk_pc = "idle"
    /\ bulk_downloads = {}
    /\ bulk_uploads = {}
    /\ dtask = [f \in Files |-> "none"]
    /\ utask = [f \in Files |-> "none"]
\* A file that does not exist; the bytes of a file are 1 and 2.
Absent == <<0>>
NoSignature == [of |-> "none", read |-> TRUE, chunks |-> <<>>]
NoDelta == [pc |-> "none", unchanged_chunks |-> <<>>, changed_chunks |-> <<>>,
            total_size |-> 0, compression_ratio |-> <<1, 1>>]
NotApplied == [pc |-> "none", source |-> "none", failure |-> "none",
               before |-> Absent, returned |-> FALSE]
InitDiffIdle ==
    /\ fileA = <<>>
    /\ fileB = <<>>
    /\ target_file = Absent
    /\ temp_file = Absent
    /\ signature = NoSignature
    /\ delta = NoDelta
    /\ applied = NotApplied
InitRejoinIdle ==
    /\ endpoints = <<>>
    /\ connection_of = [c \in Clients |-> 0]
NoGet == [pc |-> "idle", resume |-> TRUE, requests |-> 0, status |-> 0]
InitResumeIdle ==
    /\ local_bytes = Absent
    /\ server_bytes = <<>>
    /\ get = NoGet
InitServerIdle ==
    /\ InitStoreIdle
    /\ sync_history = {}
    /\ clients = {}
    /\ del_call = NoDelete
    /\ delete_calls = [p \in Paths |-> 0]
    /\ InitPoolIdle
    /\ dl = NoDownload
    /\ InitBulkIdle
InitServiceIdle ==
    /\ InitDiffIdle
    /\ InitRejoinIdle
    /\ InitResumeIdle
    /\ InitServerIdle

\* WebSocketManager.__init__ (websocket_manager.py:21-23), nobody connected
InitManagerIdle ==
    /\ registry = <<>>
    /\ sock = [c \in HubClients |-> "none"]
    /\ srv_loop = [c \in HubClients |-> "none"]
    /\ bc = NoBroadcast
    /\ attempted = {}
    /\ unregistered = {}
    /\ bc_raised = FALSE
    /\ srv_dropped = [c \in HubClients |-> 0]
    /\ cli_loop = "running"
    /\ cli_dropped = 0

InitEngine ==
    /\ websocket = 0
    /\ conn = [w \in 1..MaxConns |-> "unused"]
    /\ is_connected = FALSE
    /\ should_reconnect = TRUE
    /\ reconnect_attempts = 0
    /\ listen = [w \in 1..MaxConns |-> "none"]
    /\ heartbeat_task = "none"
    /\ hbWs = 0
    /\ reconnect_task = "none"
    /\ sendPc = [s \in 1..NumSenders |-> "idle"]
    /\ sendWs = [s \in 1..NumSenders |-> 0]
    /\ apiPc = "new"
    /\ connecting = [k \in {"api", "reconnect"} |-> 0]

InitSyncIdle ==
    /\ syncPc = [c \in Clients |-> "idle"]
    /\ local_files = [c \in Clients |-> {}]
    /\ server_files = [c \in Clients |-> {}]
    /\ files_to_sync = [c \in Clients |-> {}]
    /\ conflicts = [c \in Clients |-> {}]
    /\ download_tasks = [c \in Clients |-> {}]
    /\ upload_tasks = [c \in Clients |-> {}]
    /\ downloaded = [c \in Clients |-> {}]

\* Spec: a server directory with older files, client A with a directory of
\* its own, client B joining with an empty directory; the metadata store
\* is new (no rows).
Init ==
    /\ xxhash \in BOOLEAN
    /\ sync_root \in [Clients -> {"dot", "missing", "foreign"}]
    /\ \E sd \in DirStates({1}), ad \in DirStates(Contents) :
          /\ srvDisk = [p \in Paths |-> sd[p].content]
          /\ srvMtime = [p \in Paths |-> sd[p].mtime]
          /\ cliDisk = [c \in Clients |->
                 IF c = "A" THEN [p \in Paths |-> ad[p].content] ELSE NoFiles]
          /\ cliMtime = [c \in Clients |->
                 IF c = "A" THEN [p \in Paths |-> ad[p].mtime] ELSE NoTimes]
    /\ srvMeta = {}
    /\ upload_log = {}
    /\ active_connections = {}
    /\ wsInbox = [c \in Clients |-> {}]
    /\ InitSyncIdle
    /\ InitEngine
    /\ InitClient
    /\ InitBackoffIdle
    /\ InitHandlerIdle
    /\ InitManagerIdle
    /\ InitServiceIdle

Next ==
    \/ \E c \in Clients : PerformInitialSync(c)
    \/ \E c \in Clients, p \in Paths : DownloadFile(c, p)
    \/ \E c \in Clients : StartUploads(c)
    \/ \E c \in Clients, p \in Paths : UploadFile(c, p)
    \/ \E c \in Clients : FinishSync(c)

Spec == Init /\ [][Next]_vars

\* ------------------------------------------------- message channel (hub)
\* A JSON message as the client's handler reads it: its type, the
\* top-level file_path / client_id keys, and the file_path / client_id keys
\* inside its "data" object ("none": the key, or "data" itself, is absent).
Msg(type, top_path, top_client, data_path, data_client) ==
    [type |-> type, top_path |-> top_path, top_client |-> top_client,
     data_path |-> data_path, data_client |-> data_client]

\* WebSocketManager._send_message_safe to every client of targets.
Deliver(targets, m) ==
    wsInbox' = [c \in Clients |->
                   IF c \in targets THEN wsInbox[c] \cup {m} ELSE wsInbox[c]]

\* WebSocketManager.websocket_endpoint accepts client c, and handle_message
\* answers its CLIENT_CONNECT handshake: a response to c, "client_joined"
\* to the others.
WsConnect(c) ==
    /\ c \notin active_connections
    /\ active_connections' = active_connections \cup {c}
    /\ wsInbox' = [d \in Clients |->
          IF d = c
          THEN wsInbox[d] \cup {Msg("client_connect", "none", "none", "none", "none")}
          ELSE IF d \in active_connections
               THEN wsInbox[d] \cup {Msg("client_joined", "none", "none", "none", c)}
               ELSE wsInbox[d]]
    /\ UNCHANGED <<fileVars, connVars>>

\* websocket_endpoint's finally: disconnect(c), "client_left" to the others.
WsDisconnect(c) ==
    /\ c \in active_connections
    /\ active_connections' = active_connections \ {c}
    /\ Deliver(active_connections \ {c},
               Msg("client_left", "none", "none", "none", c))
    /\ UNCHANGED <<fileVars, connVars>>

\* The bytes of a content, for byte-range resume.
Bytes(k) == IF k = 1 THEN <<1>> ELSE <<1, 2>>
ContentOf(bytes) == CHOOSE k \in Contents : Bytes(k) = bytes

\* SyncEngine.download_file(p, resume=True) against SyncServer.download_file:
\* the content of the local file afterwards.
\*   no local file: plain GET, 200, mode "wb"
\*   local file of size n: Range bytes=n-; n >= file_size gives 416 and one
\*   full download; otherwise 206 and the tail is appended (mode "ab")
DownloadResult(local, server) ==
    IF server = NoFile THEN local
    ELSE IF local = NoFile THEN server
    ELSE IF Len(Bytes(local)) >= Len(Bytes(server)) THEN server
    ELSE ContentOf(Bytes(local) \o
                   SubSeq(Bytes(server), Len(Bytes(local)) + 1, Len(Bytes(server))))

\* SyncEngine._handle_websocket_message for one received message.  Only
\* "file_updated" acts: _handle_remote_file_update reads file_path and
\* client_id from data.get("data", {}) and downloads the file.
ClientHandleMessage(c, m) ==
    /\ m \in wsInbox[c]
    /\ wsInbox' = [wsInbox EXCEPT ![c] = @ \ {m}]
    /\ IF m.type = "file_updated" /\ m.data_client # c /\ m.data_path # "none"
       THEN LET p == m.data_path
                r == DownloadResult(cliDisk[c][p], srvDisk[p])
            IN /\ cliDisk' = [cliDisk EXCEPT ![c][p] = r]
               /\ cliMtime' = [cliMtime EXCEPT ![c][p] =
                                  IF r = cliDisk[c][p] THEN @ ELSE Now]
               /\ downloaded' = [downloaded EXCEPT ![c] =
                                  IF srvDisk[p] = NoFile THEN @ ELSE @ \cup {p}]
       ELSE UNCHANGED cliVars
    /\ UNCHANGED <<envVars, srvVars, syncVars, active_connections, connVars>>

\* SyncEngine.sync_file(CREATE or UPDATE, file_info) for an existing local
\* file: upload_file raises on the server's 500, so sync_file re-raises
\* before its WebSocket notification.
SyncFileUpload(c, p) ==
    /\ cliDisk[c][p] # NoFile
    /\ ClientUpload(c, p)
    /\ UploadRaises(c, p)
    /\ UNCHANGED <<envVars, cliVars, syncVars, connVars>>

\* SpecNotify: client A holds two files, the server and client B are empty.
InitNotify ==
    /\ xxhash = FALSE
    /\ sync_root = [c \in Clients |-> "missing"]
    /\ srvDisk = NoFiles
    /\ srvMtime = NoTimes
    /\ cliDisk = [c \in Clients |->
          IF c = "A" THEN [p \in Paths |-> IF p = "a" THEN 1 ELSE 2] ELSE NoFiles]
    /\ cliMtime = [c \in Clients |->
          IF c = "A" THEN [p \in Paths |-> 1] ELSE NoTimes]
    /\ srvMeta = {}
    /\ upload_log = {}
    /\ active_connections = {}
    /\ wsInbox = [c \in Clients |-> {}]
    /\ InitSyncIdle
    /\ InitEngine
    /\ InitClient
    /\ InitBackoffIdle
    /\ InitHandlerIdle
    /\ InitManagerIdle
    /\ InitServiceIdle

NextNotify ==
    \/ \E c \in Clients : WsConnect(c)
    \/ \E c \in Clients : WsDisconnect(c)
    \/ \E c \in Clients : \E m \in wsInbox[c] : ClientHandleMessage(c, m)
    \/ \E c \in Clients, p \in Paths : SyncFileUpload(c, p)

SpecNotify == InitNotify /\ [][NextNotify]_vars

\* ------------------------------------------- SyncEngine: connection life
\* Transports are numbered in the order websockets.connect returns them.
\*   "unused"     not opened yet
\*   "open"       established
\*   "closedOK"   closed with a normal close code (by either side)
\*   "closedErr"  lost (abnormal closure)
Unused == {w \in 1..MaxConns : conn[w] = "unused"}
NextTransport == CHOOSE w \in Unused : \A v \in Unused : w <= v
\* websocket.close(): a no-op on a transport that is not open
Closed(w) == [conn EXCEPT ![w] = IF @ = "open" THEN "closedOK" ELSE @]

ReconnectActive ==
    reconnect_task \in {"scheduled", "sleeping", "closing", "connecting", "handshake"}
HeartbeatActive == heartbeat_task \in {"ready", "sending", "sleeping"}

\* _schedule_reconnect with the bound compared by ">" instead of ">="
schedule_reconnect_OffByOne(task) ==
    IF ~should_reconnect THEN task
    ELSE IF reconnect_attempts > max_reconnect_attempts THEN task
    ELSE "scheduled"

\* SyncEngine._schedule_reconnect, called by a task other than the
\* reconnect task: the state of self._reconnect_task afterwards.  A task
\* that is replaced is cancelled and stops at its suspension point.
schedule_reconnect(task) ==
    IF ~should_reconnect THEN task
    ELSE IF reconnect_attempts >= max_reconnect_attempts THEN task
    ELSE "scheduled"

\* ... and called by the reconnect task itself after a failed attempt:
\* that task ends whether or not a successor is created.
reschedule_self ==
    IF schedule_reconnect("done") = "scheduled" THEN "scheduled" ELSE "done"

\* the handshake slot of the reconnect task is void once the task is replaced
ReconnectSlot(task) ==
    [connecting EXCEPT !["reconnect"] = IF task = reconnect_task THEN @ ELSE 0]

\* A failure observed by a task other than the reconnect task:
\* self.is_connected = False; if self._should_reconnect: _schedule_reconnect()
ObserveFailure ==
    /\ is_connected' = FALSE
    /\ reconnect_task' = schedule_reconnect(reconnect_task)
    /\ connecting' = ReconnectSlot(schedule_reconnect(reconnect_task))

\* _connect_websocket, lines 132-134: websockets.connect returned.
ConnectSucceeds(who) ==
    /\ Unused # {}
    /\ conn' = [conn EXCEPT ![NextTransport] = "open"]
    /\ websocket' = NextTransport
    /\ is_connected' = TRUE
    /\ reconnect_attempts' = 0
    /\ connecting' = [connecting EXCEPT ![who] = NextTransport]

\* --- start()
StartBegin ==
    /\ apiPc = "new"
    /\ apiPc' = "start_connecting"
    /\ UNCHANGED <<fileVars, hubVars, websocket, conn, is_connected,
                   should_reconnect, reconnect_attempts, listen, heartbeat_task,
                   hbWs, reconnect_task, sendPc, sendWs, connecting>>

StartConnectOK ==
    /\ apiPc = "start_connecting"
    /\ ConnectSucceeds("api")
    /\ apiPc' = "start_handshake"
    /\ UNCHANGED <<fileVars, hubVars, should_reconnect, listen, heartbeat_task,
                   hbWs, reconnect_task, sendPc, sendWs>>

\* websockets.connect raised ConnectionError / OSError: logged, a reconnect
\* is scheduled and start() goes on to register the client.
StartConnectRefused ==
    /\ apiPc = "start_connecting"
    /\ ObserveFailure
    /\ apiPc' = "start_register"
    /\ UNCHANGED <<fileVars, hubVars, websocket, conn, should_reconnect,
                   reconnect_attempts, listen, heartbeat_task, hbWs, sendPc, sendWs>>

\* websockets.connect raised anything else: WebSocketError leaves start().
StartConnectRaises ==
    /\ apiPc = "start_connecting"
    /\ is_connected' = FALSE
    /\ apiPc' = "failed"
    /\ UNCHANGED <<fileVars, hubVars, websocket, conn, should_reconnect,
                   reconnect_attempts, listen, heartbeat_task, hbWs,
                   reconnect_task, sendPc, sendWs, connecting>>

\* the handshake send returned: the listen task is created (line 154)
StartHandshakeOK ==
    /\ apiPc = "start_handshake"
    /\ conn[connecting["api"]] = "open"
    /\ listen' = [listen EXCEPT ![connecting["api"]] = "running"]
    /\ connecting' = [connecting EXCEPT !["api"] = 0]
    /\ apiPc' = "start_register"
    /\ UNCHANGED <<fileVars, hubVars, websocket, conn, is_connected,
                   should_reconnect, reconnect_attempts, heartbeat_task, hbWs,
                   reconnect_task, sendPc, sendWs>>

\* the handshake send raised ConnectionClosed: "except Exception" re-raises
StartHandshakeFails ==
    /\ apiPc = "start_handshake"
    /\ conn[connecting["api"]] # "open"
    /\ is_connected' = FALSE
    /\ connecting' = [connecting EXCEPT !["api"] = 0]
    /\ apiPc' = "failed"
    /\ UNCHANGED <<fileVars, hubVars, websocket, conn, should_reconnect,
                   reconnect_attempts, listen, heartbeat_task, hbWs,
                   reconnect_task, sendPc, sendWs>>

\* _register_client returned: the heartbeat task is created (line 99)
StartRegisterOK ==
    /\ apiPc = "start_register"
    /\ heartbeat_task' = "ready"
    /\ apiPc' = "running"
    /\ UNCHANGED <<fileVars, hubVars, websocket, conn, is_connected,
                   should_reconnect, reconnect_attempts, listen, hbWs,
                   reconnect_task, sendPc, sendWs, connecting>>

\* _register_client raised (connection or server error)
StartRegisterFails ==
    /\ apiPc = "start_register"
    /\ apiPc' = "failed"
    /\ UNCHANGED <<fileVars, hubVars, websocket, conn, is_connected,
                   should_reconnect, reconnect_attempts, listen, heartbeat_task,
                   hbWs, reconnect_task, sendPc, sendWs, connecting>>

\* --- the transport's peer
ServerClose(w) ==
    /\ conn[w] = "open"
    /\ conn' = [conn EXCEPT ![w] = "closedOK"]
    /\ UNCHANGED <<fileVars, hubVars, websocket, is_connected, should_reconnect,
                   reconnect_attempts, listen, heartbeat_task, hbWs,
                   reconnect_task, sendPc, sendWs, apiPc, connecting>>

ConnLost(w) ==
    /\ conn[w] = "open"
    /\ conn' = [conn EXCEPT ![w] = "closedErr"]
    /\ UNCHANGED <<fileVars, hubVars, websocket, is_connected, should_reconnect,
                   reconnect_attempts, listen, heartbeat_task, hbWs,
                   reconnect_task, sendPc, sendWs, apiPc, connecting>>

\* --- _listen_websocket
\* "async for message in self.websocket" ends without an exception when
\* the transport was closed normally.
ListenEnds(w) ==
    /\ listen[w] = "running"
    /\ conn[w] = "closedOK"
    /\ listen' = [listen EXCEPT ![w] = "done"]
    /\ UNCHANGED <<fileVars, hubVars, websocket, conn, is_connected,
                   should_reconnect, reconnect_attempts, heartbeat_task, hbWs,
                   reconnect_task, sendPc, sendWs, apiPc, connecting>>

\* ConnectionClosed is raised into the loop (lines 176-180)
ListenFails(w) ==
    /\ listen[w] = "running"
    /\ conn[w] = "closedErr"
    /\ listen' = [listen EXCEPT ![w] = "done"]
    /\ ObserveFailure
    /\ UNCHANGED <<fileVars, hubVars, websocket, conn, should_reconnect,
                   reconnect_attempts, heartbeat_task, hbWs, sendPc, sendWs, apiPc>>

\* --- _heartbeat_loop
\* the head of the loop, on the first run and after each sleep
HeartbeatLoop ==
    /\ heartbeat_task \in {"ready", "sleeping"}
    /\ IF ~is_connected
       THEN heartbeat_task' = "done" /\ hbWs' = 0
       ELSE IF websocket # 0
            THEN heartbeat_task' = "sending" /\ hbWs' = websocket
            ELSE heartbeat_task' = "sleeping" /\ hbWs' = 0
    /\ heartbeat_task' # heartbeat_task
    /\ UNCHANGED <<fileVars, hubVars, websocket, conn, is_connected,
                   should_reconnect, reconnect_attempts, listen, reconnect_task,
                   sendPc, sendWs, apiPc, connecting>>

HeartbeatSent ==
    /\ heartbeat_task = "sending"
    /\ conn[hbWs] = "open"
    /\ heartbeat_task' = "sleeping"
    /\ hbWs' = 0
    /\ UNCHANGED <<fileVars, hubVars, websocket, conn, is_connected,
                   should_reconnect, reconnect_attempts, listen, reconnect_task,
                   sendPc, sendWs, apiPc, connecting>>

\* "except Exception: logger.exception(...); break" (lines 306-308)
HeartbeatFails ==
    /\ heartbeat_task = "sending"
    /\ conn[hbWs] # "open"
    /\ heartbeat_task' = "done"
    /\ hbWs' = 0
    /\ UNCHANGED <<fileVars, hubVars, websocket, conn, is_connected,
                   should_reconnect, reconnect_attempts, listen, reconnect_task,
                   sendPc, sendWs, apiPc, connecting>>

\* --- _reconnect_websocket
ReconnectStart ==
    /\ reconnect_task = "scheduled"
    /\ reconnect_attempts' = reconnect_attempts + 1
    /\ reconnect_task' = "sleeping"
    /\ UNCHANGED <<fileVars, hubVars, websocket, conn, is_connected,
                   should_reconnect, listen, heartbeat_task, hbWs, sendPc,
                   sendWs, apiPc, connecting>>

\* after the sleep (lines 662-672)
ReconnectWake ==
    /\ reconnect_task = "sleeping"
    /\ IF ~should_reconnect
       THEN reconnect_task' = "done" /\ conn' = conn
       ELSE IF websocket # 0
            THEN reconnect_task' = "closing" /\ conn' = Closed(websocket)
            ELSE reconnect_task' = "connecting" /\ conn' = conn
    /\ UNCHANGED <<fileVars, hubVars, websocket, is_connected, should_reconnect,
                   reconnect_attempts, listen, heartbeat_task, hbWs, sendPc,
                   sendWs, apiPc, connecting>>

\* websocket.close() returned: self.websocket = None, then connect
ReconnectClosed ==
    /\ reconnect_task = "closing"
    /\ websocket' = 0
    /\ reconnect_task' = "connecting"
    /\ UNCHANGED <<fileVars, hubVars, conn, is_connected, should_reconnect,
                   reconnect_attempts, listen, heartbeat_task, hbWs, sendPc,
                   sendWs, apiPc, connecting>>

ReconnectConnectOK ==
    /\ reconnect_task = "connecting"
    /\ ConnectSucceeds("reconnect")
    /\ reconnect_task' = "handshake"
    /\ UNCHANGED <<fileVars, hubVars, should_reconnect, listen, heartbeat_task,
                   hbWs, sendPc, sendWs, apiPc>>

\* the connect failed (any exception): is_connected = False and
\* _schedule_reconnect, from _connect_websocket or from the task's handler
ReconnectConnectFails ==
    /\ reconnect_task = "connecting"
    /\ is_connected' = FALSE
    /\ reconnect_task' = reschedule_self
    /\ UNCHANGED <<fileVars, hubVars, websocket, conn, should_reconnect,
                   reconnect_attempts, listen, heartbeat_task, hbWs, sendPc,
                   sendWs, apiPc, connecting>>

ReconnectHandshakeOK ==
    /\ reconnect_task = "handshake"
    /\ conn[connecting["reconnect"]] = "open"
    /\ listen' = [listen EXCEPT ![connecting["reconnect"]] = "running"]
    /\ connecting' = [connecting EXCEPT !["reconnect"] = 0]
    /\ reconnect_task' = "done"
    /\ UNCHANGED <<fileVars, hubVars, websocket, conn, is_connected,
                   should_reconnect, reconnect_attempts, heartbeat_task, hbWs,
                   sendPc, sendWs, apiPc>>

ReconnectHandshakeFails ==
    /\ reconnect_task = "handshake"
    /\ conn[connecting["reconnect"]] # "open"
    /\ is_connected' = FALSE
    /\ connecting' = [connecting EXCEPT !["reconnect"] = 0]
    /\ reconnect_task' = reschedule_self
    /\ UNCHANGED <<fileVars, hubVars, websocket, conn, should_reconnect,
                   reconnect_attempts, listen, heartbeat_task, hbWs, sendPc,
                   sendWs, apiPc>>

\* --- sync_file
\* SyncServer.delete_file (DELETE /files/{path}) called by client c: the
\* file and its row are removed, "file_deleted" goes to the other clients.
ServerDelete(c, p) ==
    /\ srvDisk' = [srvDisk EXCEPT ![p] = NoFile]
    /\ srvMtime' = [srvMtime EXCEPT ![p] = 0]
    /\ srvMeta' = {f \in srvMeta : f.path # p}
    /\ Deliver(active_connections \ {c}, Msg("file_deleted", p, c, "none", "none"))
    /\ UNCHANGED <<upload_log, active_connections>>

\* sync_file(DELETE, file_info) by the engine (client "A") for a file the
\* server holds: delete_file on the server, then the notification send
\* begins when "self.websocket and self.is_connected".
SyncFileDelete(s, p) ==
    /\ sendPc[s] = "idle"
    /\ apiPc \notin {"new", "start_connecting", "start_handshake",
                     "start_register", "stopped"}
    /\ srvDisk[p] # NoFile
    /\ ServerDelete("A", p)
    /\ IF websocket # 0 /\ is_connected
       THEN /\ sendPc' = [sendPc EXCEPT ![s] = "sending"]
            /\ sendWs' = [sendWs EXCEPT ![s] = websocket]
       ELSE UNCHANGED <<sendPc, sendWs>>
    /\ UNCHANGED <<envVars, cliVars, syncVars, websocket, conn, is_connected,
                   should_reconnect, reconnect_attempts, listen, heartbeat_task,
                   hbWs, reconnect_task, apiPc, connecting>>

SyncFileSent(s) ==
    /\ sendPc[s] = "sending"
    /\ conn[sendWs[s]] = "open"
    /\ sendPc' = [sendPc EXCEPT ![s] = "idle"]
    /\ sendWs' = [sendWs EXCEPT ![s] = 0]
    /\ UNCHANGED <<fileVars, hubVars, websocket, conn, is_connected,
                   should_reconnect, reconnect_attempts, listen, heartbeat_task,
                   hbWs, reconnect_task, apiPc, connecting>>

\* the send raised (lines 339-349)
SyncFileSendFails(s) ==
    /\ sendPc[s] = "sending"
    /\ conn[sendWs[s]] # "open"
    /\ sendPc' = [sendPc EXCEPT ![s] = "idle"]
    /\ sendWs' = [sendWs EXCEPT ![s] = 0]
    /\ ObserveFailure
    /\ UNCHANGED <<fileVars, hubVars, websocket, conn, should_reconnect,
                   reconnect_attempts, listen, heartbeat_task, hbWs, apiPc>>

\* --- force_reconnect()
ForceStates == {"force_closing", "force_connecting", "force_handshake"}

ForceBegin ==
    /\ apiPc = "running"
    /\ is_connected' = FALSE
    /\ reconnect_attempts' = 0
    /\ IF websocket # 0
       THEN apiPc' = "force_closing" /\ conn' = Closed(websocket)
       ELSE apiPc' = "force_connecting" /\ conn' = conn
    /\ UNCHANGED <<fileVars, hubVars, websocket, should_reconnect, listen,
                   heartbeat_task, hbWs, reconnect_task, sendPc, sendWs, connecting>>

ForceClosed ==
    /\ apiPc = "force_closing"
    /\ websocket' = 0
    /\ apiPc' = "force_connecting"
    /\ UNCHANGED <<fileVars, hubVars, conn, is_connected, should_reconnect,
                   reconnect_attempts, listen, heartbeat_task, hbWs,
                   reconnect_task, sendPc, sendWs, connecting>>

ForceConnectOK ==
    /\ apiPc = "force_connecting"
    /\ ConnectSucceeds("api")
    /\ apiPc' = "force_handshake"
    /\ UNCHANGED <<fileVars, hubVars, should_reconnect, listen, heartbeat_task,
                   hbWs, reconnect_task, sendPc, sendWs>>

\* ConnectionError / OSError: a reconnect is scheduled, force_reconnect returns
ForceConnectRefused ==
    /\ apiPc = "force_connecting"
    /\ ObserveFailure
    /\ apiPc' = "running"
    /\ UNCHANGED <<fileVars, hubVars, websocket, conn, should_reconnect,
                   reconnect_attempts, listen, heartbeat_task, hbWs, sendPc, sendWs>>

ForceHandshakeOK ==
    /\ apiPc = "force_handshake"
    /\ conn[connecting["api"]] = "open"
    /\ listen' = [listen EXCEPT ![connecting["api"]] = "running"]
    /\ connecting' = [connecting EXCEPT !["api"] = 0]
    /\ apiPc' = "running"
    /\ UNCHANGED <<fileVars, hubVars, websocket, conn, is_connected,
                   should_reconnect, reconnect_attempts, heartbeat_task, hbWs,
                   reconnect_task, sendPc, sendWs>>

\* WebSocketError leaves force_reconnect
ForceHandshakeFails ==
    /\ apiPc = "force_handshake"
    /\ conn[connecting["api"]] # "open"
    /\ is_connected' = FALSE
    /\ connecting' = [connecting EXCEPT !["api"] = 0]
    /\ apiPc' = "running"
    /\ UNCHANGED <<fileVars, hubVars, websocket, conn, should_reconnect,
                   reconnect_attempts, listen, heartbeat_task, hbWs,
                   reconnect_task, sendPc, sendWs>>

\* --- stop()
\* stop() that leaves a pending reconnect task alone
StopBegin_NoCancel ==
    /\ apiPc \in {"running", "failed", "stop_client"}
    /\ is_connected' = FALSE
    /\ should_reconnect' = FALSE
    /\ apiPc' = "stop_heartbeat"
    /\ UNCHANGED <<fileVars, hubVars, websocket, conn, reconnect_attempts,
                   listen, heartbeat_task, hbWs, sendPc, sendWs, reconnect_task,
                   connecting>>

\* lines 106-112: the flags are cleared, the reconnect task is cancelled
\* and awaited
StopBegin ==
    /\ apiPc \in {"running", "failed", "stop_client"}
    /\ is_connected' = FALSE
    /\ should_reconnect' = FALSE
    /\ reconnect_task' = IF reconnect_task = "none" THEN "none" ELSE "done"
    /\ connecting' = [connecting EXCEPT !["reconnect"] = 0]
    /\ apiPc' = "stop_heartbeat"
    /\ UNCHANGED <<fileVars, hubVars, websocket, conn, reconnect_attempts,
                   listen, heartbeat_task, hbWs, sendPc, sendWs>>

\* lines 114-117: the heartbeat task is cancelled and awaited
StopHeartbeat ==
    /\ apiPc = "stop_heartbeat"
    /\ heartbeat_task' = IF heartbeat_task = "none" THEN "none" ELSE "done"
    /\ hbWs' = 0
    /\ apiPc' = "stop_close"
    /\ UNCHANGED <<fileVars, hubVars, websocket, conn, is_connected,
                   should_reconnect, reconnect_attempts, listen, reconnect_task,
                   sendPc, sendWs, connecting>>

\* lines 119-120: the transport is closed
StopCloseWebsocket ==
    /\ apiPc = "stop_close"
    /\ conn' = IF websocket # 0 THEN Closed(websocket) ELSE conn
    /\ apiPc' = "stop_session"
    /\ UNCHANGED <<fileVars, hubVars, websocket, is_connected, should_reconnect,
                   reconnect_attempts, listen, heartbeat_task, hbWs,
                   reconnect_task, sendPc, sendWs, connecting>>

\* lines 122-125: the HTTP session is closed, stop() returns
StopCloseSession ==
    /\ apiPc = "stop_session"
    /\ apiPc' = "stopped"
    /\ UNCHANGED <<fileVars, hubVars, websocket, conn, is_connected,
                   should_reconnect, reconnect_attempts, listen, heartbeat_task,
                   hbWs, reconnect_task, sendPc, sendWs, connecting>>

\* SpecConn: one engine after construction, a server holding both files.
InitConn ==
    /\ xxhash = FALSE
    /\ sync_root = [c \in Clients |-> "missing"]
    /\ srvDisk = [p \in Paths |-> 1]
    /\ srvMtime = [p \in Paths |-> 1]
    /\ cliDisk = [c \in Clients |-> NoFiles]
    /\ cliMtime = [c \in Clients |-> NoTimes]
    /\ srvMeta = {}
    /\ upload_log = {}
    /\ active_connections = {}
    /\ wsInbox = [c \in Clients |-> {}]
    /\ InitSyncIdle
    /\ InitEngine
    /\ InitClient
    /\ InitBackoffIdle
    /\ InitHandlerIdle
    /\ InitManagerIdle
    /\ InitServiceIdle

NextConnection ==
    \/ StartBegin \/ StartConnectOK \/ StartConnectRefused \/ StartConnectRaises
    \/ StartHandshakeOK \/ StartHandshakeFails
    \/ StartRegisterOK \/ StartRegisterFails
    \/ \E w \in 1..MaxConns : ServerClose(w)
    \/ \E w \in 1..MaxConns : ConnLost(w)
    \/ \E w \in 1..MaxConns : ListenEnds(w)
    \/ \E w \in 1..MaxConns : ListenFails(w)
    \/ HeartbeatLoop \/ HeartbeatSent \/ HeartbeatFails
    \/ ReconnectStart \/ ReconnectWake \/ ReconnectClosed
    \/ ReconnectConnectOK \/ ReconnectConnectFails
    \/ ReconnectHandshakeOK \/ ReconnectHandshakeFails
    \/ \E s \in 1..NumSenders, p \in Paths : SyncFileDelete(s, p)
    \/ \E s \in 1..NumSenders : SyncFileSent(s)
    \/ \E s \in 1..NumSenders : SyncFileSendFails(s)
    \/ ForceBegin \/ ForceClosed \/ ForceConnectOK \/ ForceConnectRefused
    \/ ForceHandshakeOK \/ ForceHandshakeFails
    \/ StopBegin \/ StopHeartbeat \/ StopCloseWebsocket \/ StopCloseSession

SpecConn == InitConn /\ [][NextConnection]_vars

\* ------------------------------------------- SyncClient: watcher and stop
\* All engine variables but apiPc.
engineVars == <<websocket, conn, is_connected, should_reconnect,
                reconnect_attempts, listen, heartbeat_task, hbWs,
                reconnect_task, sendPc, sendWs, connecting>>

\* FileWatcher.start, called by SyncClient.start once the engine has
\* started (main.py:57-58): the observer thread and the cleanup task start.
WatcherStart ==
    /\ apiPc = "running"
    /\ ~is_running
    /\ observer = "none"
    /\ observer' = "alive"
    /\ is_running' = TRUE
    /\ cleanup_task' = "running"
    /\ UNCHANGED <<hostVars, serviceVars, stop_again, stop_raised, backoffVars, handlerVars,
                   managerVars, srvVars, cliVars, syncVars, hubVars, connVars>>

\* FileWatcher.stop without its first two lines
FileWatcherStop_NoGuard ==
    IF observer = "none"
    THEN stop_raised' = TRUE /\ UNCHANGED watcherVars
    ELSE /\ observer' = "stopped"
         /\ is_running' = FALSE
         /\ cleanup_task' = IF cleanup_task = "none" THEN "none" ELSE "done"
         /\ UNCHANGED stop_raised

\* FileWatcher.stop (watcher.py:219-234): nothing happens unless the watcher
\* runs; otherwise the observer is stopped and joined and the cleanup task
\* is cancelled and awaited.
FileWatcherStop ==
    IF ~is_running \/ observer = "none"
    THEN UNCHANGED <<watcherVars, stop_raised>>
    ELSE /\ observer' = "stopped"
         /\ is_running' = FALSE
         /\ cleanup_task' = IF cleanup_task = "none" THEN "none" ELSE "done"
         /\ UNCHANGED stop_raised

\* SyncClient.stop (main.py:62-73) up to its call of the engine's stop();
\* it may be called again on a stopped client.
ClientStop ==
    /\ apiPc \in {"running", "failed", "stopped"}
    /\ stop_again' = (stop_again \/ apiPc = "stopped")
    /\ FileWatcherStop
    /\ apiPc' = "stop_client"
    /\ UNCHANGED <<hostVars, serviceVars, backoffVars, handlerVars, managerVars, srvVars,
                   cliVars, syncVars, hubVars, engineVars>>

StopStates == {"stop_client", "stop_heartbeat", "stop_close", "stop_session"}

\* SpecStop: one client process that is started, loses and regains its
\* connection, and is stopped any number of times through SyncClient.stop,
\* which stops the watcher and then the engine.
NextStop ==
    \/ StartBegin \/ StartConnectOK \/ StartConnectRefused \/ StartConnectRaises
    \/ StartHandshakeOK \/ StartHandshakeFails
    \/ StartRegisterOK \/ StartRegisterFails
    \/ \E w \in 1..MaxConns : ServerClose(w)
    \/ \E w \in 1..MaxConns : ConnLost(w)
    \/ \E w \in 1..MaxConns : ListenEnds(w)
    \/ \E w \in 1..MaxConns : ListenFails(w)
    \/ HeartbeatLoop \/ HeartbeatSent \/ HeartbeatFails
    \/ ReconnectStart \/ ReconnectWake \/ ReconnectClosed
    \/ ReconnectConnectOK \/ ReconnectConnectFails
    \/ ReconnectHandshakeOK \/ ReconnectHandshakeFails
    \/ WatcherStart \/ ClientStop
    \/ (apiPc = "stop_client" /\ StopBegin) \/ StopHeartbeat \/ StopCloseWebsocket \/ StopCloseSession

SpecStop == InitConn /\ [][NextStop]_vars

\* ------------------------------------------- SyncEngine: reconnect backoff
Min(a, b) == IF a <= b THEN a ELSE b

\* the delay without the cap
reconnect_delay_NoCap(attempt) ==
    base_reconnect_delay * 2 ^ (attempt - 1)

\* _reconnect_websocket, lines 647-650: the delay before jitter, in seconds
reconnect_delay(attempt) ==
    Min(max_reconnect_delay, base_reconnect_delay * 2 ^ (attempt - 1))

\* line 652: delay + random.uniform(0, delay * 0.1), in hundredths of a
\* second, for the k-th sample point of the jitter interval
jitter(d, k) == d * 100 + (k * d * 10) \div JitterSteps

\* _reconnect_websocket up to its sleep (lines 643-660) with its locals
ReconnectBackoff ==
    /\ reconnect_task = "scheduled"
    /\ reconnect_attempts' = reconnect_attempts + 1
    /\ delay' = reconnect_delay(reconnect_attempts')
    /\ \E k \in 0..JitterSteps : jittered_delay' = jitter(delay', k)
    /\ reconnect_task' = "sleeping"
    /\ UNCHANGED <<hostVars, serviceVars, clientVars, handlerVars, managerVars, srvVars,
                   cliVars, syncVars, hubVars, websocket, conn, is_connected, should_reconnect, listen,
                   heartbeat_task, hbWs, sendPc, sendWs, apiPc, connecting>>

\* SpecBackoff: a disconnected engine whose reconnect task was scheduled
\* after 0..9 attempts.
InitBackoff ==
    /\ xxhash = FALSE
    /\ sync_root = [c \in Clients |-> "missing"]
    /\ srvDisk = NoFiles
    /\ srvMtime = NoTimes
    /\ cliDisk = [c \in Clients |-> NoFiles]
    /\ cliMtime = [c \in Clients |-> NoTimes]
    /\ srvMeta = {}
    /\ upload_log = {}
    /\ active_connections = {}
    /\ wsInbox = [c \in Clients |-> {}]
    /\ InitSyncIdle
    /\ InitClient
    /\ InitBackoffIdle
    /\ InitHandlerIdle
    /\ InitManagerIdle
    /\ InitServiceIdle
    /\ websocket = 0
    /\ conn = [w \in 1..MaxConns |-> "unused"]
    /\ is_connected = FALSE
    /\ should_reconnect = TRUE
    /\ reconnect_attempts \in 0..(max_reconnect_attempts - 1)
    /\ listen = [w \in 1..MaxConns |-> "none"]
    /\ heartbeat_task = "done"
    /\ hbWs = 0
    /\ reconnect_task = "scheduled"
    /\ sendPc = [s \in 1..NumSenders |-> "idle"]
    /\ sendWs = [s \in 1..NumSenders |-> 0]
    /\ apiPc = "running"
    /\ connecting = [k \in {"api", "reconnect"} |-> 0]

NextBackoff == ReconnectBackoff

SpecBackoff == InitBackoff /\ [][NextBackoff]_vars

\* ------------------------------------------- SyncEventHandler (watcher.py)
\* watcher.py:41-43 and the 1.0 s window of line 74, in units of 0.05 s
base_delay == 2
max_delay == 40
rapid_window == 20
\* base_delay * adaptive_factor (0.1 * 1.5)
adapted_delay == 3

\* everything the event handler does not touch
notHandlerVars == <<hostVars, serviceVars, clientVars, backoffVars, managerVars, srvVars,
                    cliVars, syncVars, hubVars, connVars>>

\* _delayed_sync, lines 71-80: the adaptive delay for an event on p now
adaptive_delay(p) ==
    IF last_event_time[p] # -1
    THEN IF clock - last_event_time[p] < rapid_window
         THEN Min(max_delay, adapted_delay)
         ELSE base_delay
    ELSE base_delay

\* on_created / on_modified / on_deleted and the part of the task they
\* create up to its sleep (lines 68-89): the event info is stored under the
\* path, replacing an older one, and the task sleeps for the delay.
delayed_sync_begin(p, operation) ==
    LET id == Len(event_log) + 1 IN
    /\ Len(event_log) < MaxEvents
    /\ event_log' = Append(event_log, [path |-> p, operation |-> operation, time |-> clock])
    /\ pending_events' = [pending_events EXCEPT ![p] = [operation |-> operation, id |-> id]]
    /\ last_event_time' = [last_event_time EXCEPT ![p] = clock]
    /\ tasks' = tasks \cup {[id |-> id, path |-> p, wake |-> clock + adaptive_delay(p)]}
    /\ UNCHANGED <<clock, callbacks, task_errors, notHandlerVars>>

\* a file is written: on_modified
FileModified(p) ==
    /\ watched[p] # 0
    /\ watched' = [watched EXCEPT ![p] = @ + 1]
    /\ delayed_sync_begin(p, "update")

\* a file is removed: on_deleted
FileDeleted(p) ==
    /\ watched[p] # 0
    /\ watched' = [watched EXCEPT ![p] = 0]
    /\ delayed_sync_begin(p, "delete")

\* time passes while no sleep is over
Tick ==
    /\ clock < MaxClock
    /\ \A t \in tasks : t.wake > clock
    /\ clock' = clock + 1
    /\ UNCHANGED <<watched, event_log, pending_events, last_event_time, tasks,
                   callbacks, task_errors, notHandlerVars>>

\* _delayed_sync after its sleep (lines 91-120).  A task that still owns
\* the entry of its path removes it.  For an operation other than DELETE it
\* calls self._get_file_info, which calls the coroutine function
\* get_file_info without await and assigns to a key of the coroutine
\* object (lines 57-60): TypeError ends the task.  For DELETE it calls
\* sync_callback with a minimal FileInfo.
delayed_sync_wake(id) ==
    \E t \in tasks :
    /\ t.id = id
    /\ t.wake <= clock
    /\ tasks' = tasks \ {t}
    /\ IF pending_events[t.path].id = t.id
       THEN /\ pending_events' = [pending_events EXCEPT
                                     ![t.path] = [operation |-> "none", id |-> 0]]
            /\ IF pending_events[t.path].operation # "delete"
               THEN /\ task_errors' = task_errors \cup {t.id}
                    /\ UNCHANGED callbacks
               ELSE /\ callbacks' = Append(callbacks,
                           [path |-> t.path, operation |-> "delete", version |-> 0])
                    /\ UNCHANGED task_errors
       ELSE UNCHANGED <<pending_events, callbacks, task_errors>>
    /\ UNCHANGED <<clock, watched, event_log, last_event_time, notHandlerVars>>

\* SpecWatch: a watched directory holding both files, an idle engine.
InitWatch ==
    /\ xxhash = FALSE
    /\ sync_root = [c \in Clients |-> "missing"]
    /\ srvDisk = NoFiles
    /\ srvMtime = NoTimes
    /\ cliDisk = [c \in Clients |-> NoFiles]
    /\ cliMtime = [c \in Clients |-> NoTimes]
    /\ srvMeta = {}
    /\ upload_log = {}
    /\ active_connections = {}
    /\ wsInbox = [c \in Clients |-> {}]
    /\ InitSyncIdle
    /\ InitEngine
    /\ InitClient
    /\ InitBackoffIdle
    /\ InitManagerIdle
    /\ InitServiceIdle
    /\ clock = 0
    /\ watched = [p \in Paths |-> 1]
    /\ event_log = <<>>
    /\ pending_events = [p \in Paths |-> [operation |-> "none", id |-> 0]]
    /\ last_event_time = [p \in Paths |-> -1]
    /\ tasks = {}
    /\ callbacks = <<>>
    /\ task_errors = {}

NextWatch ==
    \/ \E p \in Paths : FileModified(p)
    \/ \E p \in Paths : FileDeleted(p)
    \/ Tick
    \/ \E id \in 1..MaxEvents : delayed_sync_wake(id)

SpecWatch == InitWatch /\ [][NextWatch]_vars

\* ------------------------------------------- WebSocketManager, step by step
notManagerVars == <<hostVars, serviceVars, clientVars, backoffVars, handlerVars, srvVars,
                    cliVars, syncVars, hubVars, connVars>>

Range(seq) == {seq[i] : i \in 1..Len(seq)}
Without(seq, c) == SelectSeq(seq, LAMBDA x : x # c)

\* self.active_connections[client_id] = websocket: a new key goes last
Register(c) == IF c \in Range(registry) THEN registry ELSE Append(registry, c)

\* websocket_endpoint up to its receive loop: connect() accepts and registers
HubConnect(c) ==
    /\ srv_loop[c] = "none"
    /\ registry' = Register(c)
    /\ sock' = [sock EXCEPT ![c] = "open"]
    /\ srv_loop' = [srv_loop EXCEPT ![c] = "running"]
    /\ UNCHANGED <<bc, attempted, unregistered, bc_raised, srv_dropped,
                   cli_loop, cli_dropped, notManagerVars>>

\* the peer goes away without a close handshake: sends to it fail from now on
LinkBreaks(c) ==
    /\ sock[c] = "open"
    /\ sock' = [sock EXCEPT ![c] = "broken"]
    /\ UNCHANGED <<registry, srv_loop, bc, attempted, unregistered, bc_raised,
                   srv_dropped, cli_loop, cli_dropped, notManagerVars>>

\* websocket_endpoint: receive_text raises WebSocketDisconnect, the finally
\* clause unregisters the client (lines 188-193)
HubDisconnect(c) ==
    /\ srv_loop[c] = "running"
    /\ srv_loop' = [srv_loop EXCEPT ![c] = "done"]
    /\ sock' = [sock EXCEPT ![c] = "broken"]
    /\ registry' = Without(registry, c)
    /\ UNCHANGED <<bc, attempted, unregistered, bc_raised, srv_dropped,
                   cli_loop, cli_dropped, notManagerVars>>

\* broadcast_to_others that also sends to the sender
BroadcastTasks_All(origin) == registry

\* broadcast_to_others, lines 87-91: one send per registered client other
\* than the sender, in the order of the dictionary
BroadcastTasks(origin) == Without(registry, origin)

\* broadcast_to_others(origin, message) up to its gather (lines 87-97)
BroadcastStart(origin) ==
    /\ bc.pc = "idle"
    /\ LET sends == BroadcastTasks(origin) IN
       bc' = [pc |-> IF sends = <<>> THEN "done" ELSE "sending",
              origin |-> origin,
              tasks |-> sends,
              results |-> [i \in 1..Len(sends) |-> "pending"],
              start |-> registry]
    /\ UNCHANGED <<registry, sock, srv_loop, attempted, unregistered, bc_raised,
                   srv_dropped, cli_loop, cli_dropped>>
BroadcastBegin(origin) == BroadcastStart(origin) /\ UNCHANGED notManagerVars

\* _send_message_safe for the i-th task: the send returns or raises
SendCompletes(i) ==
    /\ bc.pc = "sending"
    /\ i \in 1..Len(bc.tasks)
    /\ bc.results[i] = "pending"
    /\ bc' = [bc EXCEPT !.results[i] =
                 IF sock[bc.tasks[i]] = "open" THEN "ok" ELSE "exception"]
    /\ attempted' = attempted \cup {bc.tasks[i]}
    /\ UNCHANGED <<registry, sock, srv_loop, unregistered, bc_raised,
                   srv_dropped, cli_loop, cli_dropped, notManagerVars>>

\* The clean-up loop of broadcast_to_others (lines 99-109) from position i
\* of the dictionary as it is NOW, task_index counting the clients other
\* than the sender: results[task_index] beyond the results is IndexError.
RECURSIVE CleanupFrom(_, _, _)
CleanupFrom(i, task_index, disconnected_clients) ==
    IF i > Len(registry)
    THEN [raised |-> FALSE, disconnected |-> disconnected_clients]
    ELSE IF registry[i] = bc.origin
    THEN CleanupFrom(i + 1, task_index, disconnected_clients)
    ELSE IF task_index > Len(bc.results)
    THEN [raised |-> TRUE, disconnected |-> {}]
    ELSE CleanupFrom(i + 1, task_index + 1,
                     IF bc.results[task_index] = "exception"
                     THEN disconnected_clients \cup {registry[i]}
                     ELSE disconnected_clients)

\* broadcast_to_others after gather has returned (lines 99-112)
BroadcastCleanup ==
    /\ bc.pc = "sending"
    /\ \A i \in 1..Len(bc.results) : bc.results[i] # "pending"
    /\ LET r == CleanupFrom(1, 1, {}) IN
       /\ bc_raised' = r.raised
       /\ unregistered' = r.disconnected
       /\ registry' = SelectSeq(registry, LAMBDA c : c \notin r.disconnected)
    /\ bc' = [bc EXCEPT !.pc = "done"]
    /\ UNCHANGED <<sock, srv_loop, attempted, srv_dropped, cli_loop,
                   cli_dropped, notManagerVars>>

\* websocket_endpoint receives one text frame from client c (lines 182-193).
\*   "malformed": json.loads raises, "except Exception" is outside the
\*                loop, the finally clause unregisters the client
\*   "unknown":   WebSocketMessage(**message_data) fails inside
\*                handle_message, which answers with an ERROR message;
\*                send_message unregisters the client if that send fails
ServerReceives(c, kind) ==
    /\ srv_loop[c] = "running"
    /\ srv_dropped[c] < MaxBad
    /\ srv_dropped' = [srv_dropped EXCEPT ![c] = @ + 1]
    /\ IF kind = "malformed"
       THEN /\ srv_loop' = [srv_loop EXCEPT ![c] = "done"]
            /\ sock' = [sock EXCEPT ![c] = "broken"]
            /\ registry' = Without(registry, c)
       ELSE /\ registry' = IF sock[c] = "open" THEN registry ELSE Without(registry, c)
            /\ UNCHANGED <<srv_loop, sock>>
    /\ UNCHANGED <<bc, attempted, unregistered, bc_raised, cli_loop,
                   cli_dropped, notManagerVars>>

\* _listen_websocket receives one message (sync_engine.py:169-175,
\* 190-210): JSONDecodeError is caught inside the loop, an unknown type is
\* logged by _handle_websocket_message; the loop goes on.
ClientReceives(kind) ==
    /\ cli_loop = "running"
    /\ cli_dropped < MaxBad
    /\ kind \in {"malformed", "unknown"}
    /\ cli_dropped' = cli_dropped + 1
    /\ UNCHANGED <<registry, sock, srv_loop, bc, attempted, unregistered,
                   bc_raised, srv_dropped, cli_loop, notManagerVars>>

\* SpecHub: a hub nobody is connected to, and one connected client.
InitHub ==
    /\ xxhash = FALSE
    /\ sync_root = [c \in Clients |-> "missing"]
    /\ srvDisk = NoFiles
    /\ srvMtime = NoTimes
    /\ cliDisk = [c \in Clients |-> NoFiles]
    /\ cliMtime = [c \in Clients |-> NoTimes]
    /\ srvMeta = {}
    /\ upload_log = {}
    /\ active_connections = {}
    /\ wsInbox = [c \in Clients |-> {}]
    /\ InitSyncIdle
    /\ InitEngine
    /\ InitClient
    /\ InitBackoffIdle
    /\ InitHandlerIdle
    /\ InitManagerIdle
    /\ InitServiceIdle

NextHub ==
    \/ \E c \in HubClients : HubConnect(c)
    \/ \E c \in HubClients : LinkBreaks(c)
    \/ \E c \in HubClients : HubDisconnect(c)
    \/ \E c \in HubClients : BroadcastBegin(c)
    \/ \E i \in 1..Cardinality(HubClients) : SendCompletes(i)
    \/ BroadcastCleanup
    \/ \E c \in HubClients, kind \in {"malformed", "unknown"} : ServerReceives(c, kind)
    \/ \E kind \in {"malformed", "unknown"} : ClientReceives(kind)

SpecHub == InitHub /\ [][NextHub]_vars

\* ------------------------------------------- FileManager: metadata store
\* The file_metadata table is srvMeta (one row per path); in front of it
\* get_file_metadata keeps self._metadata_cache, path -> (FileInfo, time).
\* The public methods are called one after the other, as the tests do.
cache_ttl == 300
\* the clock advances in steps of half a TTL
TimeStep == 150
MaxTicks == 2

\* everything but the server's files and rows and the services' variables
coreVars == <<hostVars, clientVars, backoffVars, handlerVars, managerVars,
              cliVars, syncVars, hubVars, connVars>>
notStoreVars == <<coreVars, srvDisk, srvMtime, upload_log, historyVars, serverVars,
                  poolVars, transferVars, libVars>>

\* The row a FileInfo is stored as (path, size, checksum, modified_time).
StoredInfo(p, k) == FileInfo(p, ClientAlg, k, Now)

\* INSERT OR REPLACE INTO file_metadata, keyed by the UNIQUE path
InsertOrReplace(rows, infos) ==
    {f \in rows : f.path \notin PathsOf(infos)} \cup infos

\* FileManager.update_file_metadata(file_info): the row is written and
\* committed; self._metadata_cache is not touched.
update_file_metadata(p, k) ==
    /\ srvMeta' = InsertOrReplace(srvMeta, {StoredInfo(p, k)})
    /\ last_write' = [last_write EXCEPT ![p] = "update"]
    /\ UNCHANGED <<metadata_cache, store_time, got, notStoreVars>>

\* FileManager.batch_update_file_metadata(file_infos): executemany of the
\* same statement; an empty list returns at once.  The cache is not touched.
batch_update_file_metadata(ps, k) ==
    /\ srvMeta' = InsertOrReplace(srvMeta, {StoredInfo(p, k[p]) : p \in ps})
    /\ last_write' = [p \in Paths |-> IF p \in ps THEN "batch" ELSE last_write[p]]
    /\ UNCHANGED <<metadata_cache, store_time, got, notStoreVars>>

\* FileManager.remove_file_metadata(file_path): DELETE ... WHERE path = ?,
\* which deletes nothing and raises nothing when there is no such row.
\* The cache is not touched.
remove_file_metadata(p) ==
    /\ srvMeta' = {f \in srvMeta : f.path # p}
    /\ last_write' = [last_write EXCEPT ![p] = "remove"]
    /\ UNCHANGED <<metadata_cache, store_time, got, notStoreVars>>

\* the cache entry get_file_metadata serves: present and younger than the TTL
FreshEntries(p) ==
    {e \in metadata_cache[p] : store_time - e.cache_time < cache_ttl}

\* FileManager.get_file_metadata(file_path)
get_file_metadata(p) ==
    /\ IF FreshEntries(p) # {}
       THEN \E e \in FreshEntries(p) :
              /\ got' = [path |-> p, info |-> {e.info},
                         row |-> ServerFile(srvMeta, p),
                         age |-> store_time - e.cache_time,
                         last |-> last_write[p]]
              /\ UNCHANGED metadata_cache
       ELSE \* an expired entry is deleted, then SELECT ... WHERE path = ?
            LET row == ServerFile(srvMeta, p)
            IN /\ metadata_cache' = [metadata_cache EXCEPT ![p] =
                      {[info |-> f, cache_time |-> store_time] : f \in row}]
               /\ got' = [path |-> p, info |-> row, row |-> row, age |-> -1,
                          last |-> last_write[p]]
    /\ last_write' = [last_write EXCEPT ![p] = "none"]
    /\ UNCHANGED <<srvMeta, store_time, notStoreVars>>

\* FileManager.invalidate_cache(file_path)
invalidate_cache(p) ==
    /\ metadata_cache[p] # {}
    /\ metadata_cache' = [metadata_cache EXCEPT ![p] = {}]
    /\ UNCHANGED <<srvMeta, store_time, got, last_write, notStoreVars>>

\* FileManager.clear_cache()
clear_cache ==
    /\ metadata_cache # [p \in Paths |-> {}]
    /\ metadata_cache' = [p \in Paths |-> {}]
    /\ UNCHANGED <<srvMeta, store_time, got, last_write, notStoreVars>>

\* time.time() moves on between two calls
TimePasses ==
    /\ store_time < MaxTicks * TimeStep
    /\ store_time' = store_time + TimeStep
    /\ UNCHANGED <<srvMeta, metadata_cache, got, last_write, notStoreVars>>

\* FileManager.__init__: no rows, an empty cache, nobody connected
InitStore == InitHub

NextStore ==
    \/ \E p \in Paths, k \in Contents : update_file_metadata(p, k)
    \/ \E ps \in (SUBSET Paths) \ {{}}, k \in [Paths -> Contents] :
          batch_update_file_metadata(ps, k)
    \/ \E p \in Paths : remove_file_metadata(p)
    \/ \E p \in Paths : get_file_metadata(p)
    \/ \E p \in Paths : invalidate_cache(p)
    \/ clear_cache
    \/ TimePasses

SpecStore == InitStore /\ [][NextStore]_vars

\* ------------------------------------------- FileManager: sync history
\* The sync_history table and the one query that reads it for conflicts.
\* Time is store_time, in steps of half an hour.
conflict_window == 3600
HalfHour == 1800
MaxHalfHours == 2
MaxHistory == 2
Operations == {"update", "delete"}

\* FileManager.log_sync_operation(file_path, operation, client_id): one
\* row, stamped by the table's DEFAULT CURRENT_TIMESTAMP.
log_sync_operation(p, op, c) ==
    /\ Cardinality(sync_history) < MaxHistory
    /\ sync_history' = sync_history \cup
          {[file_path |-> p, operation |-> op, client_id |-> c,
            timestamp |-> store_time]}
    /\ UNCHANGED <<coreVars, srvVars, storeVars, serverVars, poolVars, transferVars,
                   libVars>>

\* FileManager.get_conflicts(): the file_path values of the query
\*   WHERE operation IN ('create','update') AND timestamp > now - 1 hour
\*   GROUP BY file_path HAVING COUNT(DISTINCT client_id) > 1
RecentChanges(p) ==
    {h \in sync_history : /\ h.file_path = p
                          /\ h.operation \in {"create", "update"}
                          /\ h.timestamp > store_time - conflict_window}
get_conflicts ==
    {p \in Paths : Cardinality({h.client_id : h \in RecentChanges(p)}) > 1}

\* POST /upload of client c for path p, the whole handler: it writes
\* the bytes and never calls log_sync_operation.
HistoryUpload(c, p) ==
    /\ ServerUpload(c, p, 1)
    /\ UNCHANGED <<coreVars, serviceVars>>

HalfHourPasses ==
    /\ store_time < MaxHalfHours * HalfHour
    /\ store_time' = store_time + HalfHour
    /\ UNCHANGED <<coreVars, srvVars, metadata_cache, got, last_write, historyVars,
                   serverVars, poolVars, transferVars, libVars>>

NextHistory ==
    \/ \E c \in Clients, p \in Paths : HistoryUpload(c, p)
    \/ \E c \in Clients, p \in Paths, op \in Operations : log_sync_operation(p, op, c)
    \/ HalfHourPasses

SpecHistory == InitStore /\ [][NextHistory]_vars

\* ------------------------------------------ SyncServer: client records
\* POST /register (main.py:48-55): the ClientInfo is stored under its
\* client_id, then "client_joined" is broadcast to the others.  The engine
\* registers once its websocket is connected (sync_engine.py:95-98).  The
\* broadcast is the one that is followed when none has been followed yet.
RegisterClient(c) ==
    /\ srv_loop[c] = "running"
    /\ clients' = clients \cup {c}
    /\ IF bc.pc = "idle" THEN BroadcastStart(c) ELSE UNCHANGED managerVars
    /\ UNCHANGED <<hostVars, clientVars, backoffVars, handlerVars, storeVars,
                   historyVars, deleteVars, poolVars, transferVars, libVars, srvVars,
                   cliVars, syncVars, hubVars, connVars>>

NextServer ==
    \/ \E c \in HubClients : HubConnect(c)
    \/ \E c \in HubClients : RegisterClient(c)
    \/ \E c \in HubClients : LinkBreaks(c)
    \/ \E c \in HubClients : HubDisconnect(c)
    \/ \E i \in 1..Cardinality(HubClients) : SendCompletes(i)
    \/ BroadcastCleanup

SpecServer == InitHub /\ [][NextServer]_vars

\* ------------------------------------------------ SyncServer: delete
\* DELETE /files/{file_path} (main.py:231-267), followed through its
\* broadcast, with clients connecting and going away meanwhile.
MaxDeletes == 2
HTTP_OK == 200

\* remove_file_metadata(file_path) as delete_file calls it
DeleteRows(p) == {f \in srvMeta : f.path # p}

notDeleteVars == <<hostVars, clientVars, backoffVars, handlerVars, storeVars,
                   historyVars, clients, poolVars, transferVars, libVars, upload_log,
                   cliVars, syncVars, hubVars, connVars>>

\* delete_file up to the gather of its broadcast: the file is unlinked
\* when it exists, the row is deleted, "file_deleted" goes to the others.
DeleteBegin(c, p) ==
    /\ del_call.pc = "idle"
    /\ delete_calls[p] < MaxDeletes
    /\ srvDisk' = [srvDisk EXCEPT ![p] = NoFile]
    /\ srvMtime' = [srvMtime EXCEPT ![p] = 0]
    /\ srvMeta' = DeleteRows(p)
    /\ BroadcastStart(c)
    /\ del_call' = [pc |-> "broadcast", path |-> p, status |-> 0]
    /\ UNCHANGED <<delete_calls, notDeleteVars>>

\* delete_file after broadcast_to_others: {"success": True}, or
\* "except Exception" -> HTTP 500 when the broadcast raised.
DeleteEnd ==
    /\ del_call.pc = "broadcast"
    /\ bc.pc = "done"
    /\ del_call' = [del_call EXCEPT !.pc = "idle",
                                    !.status = IF bc_raised THEN 500 ELSE HTTP_OK]
    /\ delete_calls' = [delete_calls EXCEPT ![del_call.path] = @ + 1]
    /\ bc' = NoBroadcast
    /\ attempted' = {}
    /\ unregistered' = {}
    /\ bc_raised' = FALSE
    /\ UNCHANGED <<registry, sock, srv_loop, srv_dropped, cli_loop, cli_dropped,
                   srvVars, notDeleteVars>>

InitDelete ==
    /\ xxhash = FALSE
    /\ sync_root = [c \in Clients |-> "missing"]
    /\ srvDisk = [p \in Paths |-> 1]
    /\ srvMtime = [p \in Paths |-> 1]
    /\ cliDisk = [c \in Clients |-> NoFiles]
    /\ cliMtime = [c \in Clients |-> NoTimes]
    /\ srvMeta = {StoredInfo(p, 1) : p \in Paths}
    /\ upload_log = {}
    /\ active_connections = {}
    /\ wsInbox = [c \in Clients |-> {}]
    /\ InitSyncIdle
    /\ InitEngine
    /\ InitClient
    /\ InitBackoffIdle
    /\ InitHandlerIdle
    /\ InitManagerIdle
    /\ InitServiceIdle

NextDelete ==
    \/ \E p \in Paths : DeleteBegin("A", p)
    \/ DeleteEnd
    \/ \E c \in HubClients : HubConnect(c)
    \/ \E c \in HubClients : LinkBreaks(c)
    \/ \E c \in HubClients : HubDisconnect(c)
    \/ \E i \in 1..Cardinality(HubClients) : SendCompletes(i)
    \/ BroadcastCleanup

SpecDelete == InitDelete /\ [][NextDelete]_vars

\* ------------------------------------------ SyncEngine: download_file
\* One call download_file(file_path) of client "A", request by request,
\* against SyncServer.download_file.
MaxRequests == 3
NoRange == -1

\* GET /download/{file_path} for a file that exists (main.py:176-229):
\* start is the offset of "Range: bytes=start-", NoRange when the header
\* is absent.
RangeAnswer(bytes, start) ==
    LET file_size == Len(bytes)
        end == file_size - 1
    IN IF start = NoRange THEN [status |-> HTTP_OK, body |-> bytes]
       ELSE IF start >= file_size \/ end >= file_size \/ start > end
       THEN [status |-> 416, body |-> <<>>]
       ELSE [status |-> 206, body |-> SubSeq(bytes, start + 1, end + 1)]

\* GET /download/{file_path} (main.py:170-229)
DownloadAnswer(p, start) ==
    IF srvDisk[p] = NoFile THEN [status |-> 404, body |-> <<>>]
    ELSE RangeAnswer(Bytes(srvDisk[p]), start)

\* answers that do not come from the handler: a failure on the way
Failures == {[status |-> 500, body |-> <<>>], [status |-> 416, body |-> <<>>]}

\* the retry that keeps resuming
RetryResume_Keep == TRUE
\* the resume argument of the call made on 416 (sync_engine.py:468)
RetryResume == FALSE

notDownloadVars == <<hostVars, clientVars, backoffVars, handlerVars, managerVars,
                     storeVars, historyVars, serverVars, poolVars, bulkVars,
                     libVars, srvVars, syncVars, hubVars, connVars>>

\* download_file(p) is called, resume defaults to True
DownloadCall(p) ==
    /\ dl.pc \in {"idle", "done", "raised"}
    /\ dl' = [pc |-> "request", path |-> p, resume |-> TRUE, requests |-> 0,
              retries |-> 0, range |-> NoRange]
    /\ UNCHANGED <<cliVars, notDownloadVars>>

\* One GET of the call and what download_file does with the response
\* (lines 446-477): the Range header is sent when resume is set and the
\* local file exists; 200/206 are written ("ab" after a Range, else "wb"),
\* 404 is logged, 416 of a resuming call calls download_file again, any
\* other status raises.
DownloadRequest(failure) ==
    /\ dl.pc = "request"
    /\ dl.requests < MaxRequests
    /\ LET p == dl.path
           local == cliDisk["A"][p]
           start == IF dl.resume /\ local # NoFile THEN Len(Bytes(local)) ELSE NoRange
           ans == IF failure = {} THEN DownloadAnswer(p, start)
                  ELSE CHOOSE a \in failure : TRUE
           written == IF start = NoRange THEN ans.body ELSE Bytes(local) \o ans.body
       IN /\ IF ans.status \in {HTTP_OK, 206}
             THEN /\ cliDisk' = [cliDisk EXCEPT !["A"][p] = ContentOf(written)]
                  /\ cliMtime' = [cliMtime EXCEPT !["A"][p] = Now]
                  /\ downloaded' = [downloaded EXCEPT !["A"] = @ \cup {p}]
             ELSE UNCHANGED cliVars
          /\ dl' = [dl EXCEPT
                !.requests = @ + 1,
                !.range = start,
                !.pc = IF ans.status \in {HTTP_OK, 206, 404} THEN "done"
                       ELSE IF ans.status = 416 /\ dl.resume THEN "request"
                       ELSE "raised",
                !.resume = IF ans.status = 416 /\ dl.resume THEN RetryResume ELSE @,
                !.retries = IF ans.status = 416 /\ dl.resume THEN @ + 1 ELSE @]
    /\ UNCHANGED notDownloadVars

InitDownload ==
    /\ xxhash = FALSE
    /\ sync_root = [c \in Clients |-> "missing"]
    /\ srvDisk \in [Paths -> Contents \cup {NoFile}]
    /\ srvMtime = [p \in Paths |-> IF srvDisk[p] = NoFile THEN 0 ELSE 1]
    /\ \E d \in [Paths -> Contents \cup {NoFile}] :
          /\ cliDisk = [c \in Clients |-> IF c = "A" THEN d ELSE NoFiles]
          /\ cliMtime = [c \in Clients |->
                [p \in Paths |-> IF cliDisk[c][p] = NoFile THEN 0 ELSE 1]]
    /\ srvMeta = {}
    /\ upload_log = {}
    /\ active_connections = {}
    /\ wsInbox = [c \in Clients |-> {}]
    /\ InitSyncIdle
    /\ InitEngine
    /\ InitClient
    /\ InitBackoffIdle
    /\ InitHandlerIdle
    /\ InitManagerIdle
    /\ InitServiceIdle

AnyRequest == \E failure \in {{}} \cup {{a} : a \in Failures} : DownloadRequest(failure)

NextDownload ==
    \/ \E p \in Paths : DownloadCall(p)
    \/ AnyRequest

\* every request is answered or fails: the session's GET returns
SpecDownload == InitDownload /\ [][NextDownload]_vars /\ WF_vars(AnyRequest)

\* ----------------------------------------- FileManager: connection pool
\* _get_db_connection (file_manager.py:107-126) as used by concurrent
\* requests: each caller is one "async with self._get_db_connection()".
db_pool_size == 10
MaxCallers == 11
Callers == 1..MaxCallers

notPoolVars == <<coreVars, srvVars, storeVars, historyVars, serverVars,
                 transferVars, libVars>>

\* the connections that are open: in the pool or with a caller
OpenConnections == db_connections + Cardinality(db_held)

\* _init_database (lines 41-105): opens db_pool_size connections into the
\* pool, then takes one and gives it back to create tables and indexes.
init_database ==
    /\ ~db_initialized
    /\ db_initialized' = TRUE
    /\ db_connections' = db_pool_size
    /\ UNCHANGED <<db_held, notPoolVars>>

\* entering the context manager: under _db_lock a connection is popped,
\* or, when the pool is empty, a new one is opened with aiosqlite.connect
Acquire(i) ==
    /\ db_initialized
    /\ i \notin db_held
    /\ db_held' = db_held \cup {i}
    /\ db_connections' = IF db_connections = 0 THEN 0 ELSE db_connections - 1
    /\ UNCHANGED <<db_initialized, notPoolVars>>

\* leaving it: the connection goes back when the pool holds fewer than
\* db_pool_size, otherwise it is closed
Release(i) ==
    /\ i \in db_held
    /\ db_held' = db_held \ {i}
    /\ db_connections' = IF db_connections < db_pool_size
                         THEN db_connections + 1 ELSE db_connections
    /\ UNCHANGED <<db_initialized, notPoolVars>>

NextPool ==
    \/ init_database
    \/ \E i \in Callers : Acquire(i)
    \/ \E i \in Callers : Release(i)

SpecPool == InitStore /\ [][NextPool]_vars

\* ------------------------------- SyncEngine: the transfers of bulk sync
\* perform_initial_sync (sync_engine.py:543-624) with its two gathers.
\* A plan is the files to download and the files to upload; a file is
\* downloaded when it is missing locally and uploaded when it is local,
\* so the two are disjoint.  Task states: "none" (no task), "waiting" (at
\* "async with semaphore"), "running", "ok", "failed".
sync_concurrency == 3

notBulkVars == <<coreVars, srvVars, storeVars, historyVars, serverVars, poolVars,
                 dlVars, libVars>>

Running(task) == {f \in Files : task[f] = "running"}
Pending(task) == {f \in Files : task[f] \in {"waiting", "running"}}

\* a semaphore that lets everybody in
SemaphoreFree_NoLimit(task) == TRUE
\* asyncio.Semaphore(3): entered while fewer than three are inside
SemaphoreFree(task) == Cardinality(Running(task)) < sync_concurrency

\* gather(*[upload_with_semaphore(t) ...]) starts one task per upload
StartUploadTasks == [f \in Files |-> IF f \in bulk_uploads THEN "waiting" ELSE "none"]
AfterDownloads == IF bulk_uploads = {} THEN "done" ELSE "uploads"

\* POST /sync answered with 200: the tasks of the downloads are built and
\* gathered; without downloads the uploads follow at once.
BulkBegin(downloads, uploads) ==
    /\ bulk_pc = "idle"
    /\ downloads \cap uploads = {}
    /\ bulk_downloads' = downloads
    /\ bulk_uploads' = uploads
    /\ dtask' = [f \in Files |-> IF f \in downloads THEN "waiting" ELSE "none"]
    /\ IF downloads # {}
       THEN bulk_pc' = "downloads" /\ UNCHANGED utask
       ELSE /\ bulk_pc' = IF uploads = {} THEN "done" ELSE "uploads"
            /\ utask' = [f \in Files |-> IF f \in uploads THEN "waiting" ELSE "none"]
    /\ UNCHANGED notBulkVars

\* POST /sync answered with another status: ServerError is raised
SyncRejected ==
    /\ bulk_pc = "idle"
    /\ bulk_pc' = "raised"
    /\ UNCHANGED <<bulk_downloads, bulk_uploads, dtask, utask, notBulkVars>>

\* download_with_semaphore(task) gets the semaphore and awaits the task
DownloadEnter(f) ==
    /\ dtask[f] = "waiting"
    /\ SemaphoreFree(dtask)
    /\ dtask' = [dtask EXCEPT ![f] = "running"]
    /\ UNCHANGED <<bulk_pc, bulk_downloads, bulk_uploads, utask, notBulkVars>>

\* download_file returns or raises.  gather (return_exceptions is not
\* set) hands the first exception to perform_initial_sync, which re-raises
\* it; the other tasks are not cancelled.  When the last download has
\* returned, perform_initial_sync goes on to the uploads.
DownloadEnds(f, ok) ==
    /\ dtask[f] = "running"
    /\ dtask' = [dtask EXCEPT ![f] = IF ok THEN "ok" ELSE "failed"]
    /\ IF bulk_pc = "downloads" /\ ~ok
       THEN bulk_pc' = "raised" /\ UNCHANGED utask
       ELSE IF bulk_pc = "downloads" /\ \A g \in bulk_downloads \ {f} : dtask[g] = "ok"
       THEN bulk_pc' = AfterDownloads /\ utask' = StartUploadTasks
       ELSE UNCHANGED <<bulk_pc, utask>>
    /\ UNCHANGED <<bulk_downloads, bulk_uploads, notBulkVars>>

\* upload_with_semaphore(task) gets the semaphore and awaits the task
UploadEnter(f) ==
    /\ utask[f] = "waiting"
    /\ SemaphoreFree(utask)
    /\ utask' = [utask EXCEPT ![f] = "running"]
    /\ UNCHANGED <<bulk_pc, bulk_downloads, bulk_uploads, dtask, notBulkVars>>

\* upload_file returns or raises; the second gather behaves as the first
UploadEnds(f, ok) ==
    /\ utask[f] = "running"
    /\ utask' = [utask EXCEPT ![f] = IF ok THEN "ok" ELSE "failed"]
    /\ bulk_pc' = IF bulk_pc = "uploads" /\ ~ok THEN "raised"
                  ELSE IF bulk_pc = "uploads" /\ \A g \in bulk_uploads \ {f} : utask[g] = "ok"
                  THEN "done"
                  ELSE bulk_pc
    /\ UNCHANGED <<bulk_downloads, bulk_uploads, dtask, notBulkVars>>

NextBulk ==
    \/ \E downloads, uploads \in SUBSET Files : BulkBegin(downloads, uploads)
    \/ SyncRejected
    \/ \E f \in Files : DownloadEnter(f)
    \/ \E f \in Files, ok \in BOOLEAN : DownloadEnds(f, ok)
    \/ \E f \in Files : UploadEnter(f)
    \/ \E f \in Files, ok \in BOOLEAN : UploadEnds(f, ok)

SpecBulk == InitStore /\ [][NextBulk]_vars

\* ------------------------------------------------------ DifferentialSync
\* (src/shared/diff.py) signatures, deltas and their application, over
\* files of at most MaxLen bytes cut into chunks of chunk_size bytes.
MaxLen == 3
\* DifferentialSync.chunk_size; 8192 in the source (diff.py:49), 2 here so
\* that files of MaxLen bytes have a full and a partial chunk
chunk_size == 2
ByteFiles == UNION {[1..n -> {1, 2}] : n \in 0..MaxLen}
\* FileChunk.data of a chunk that carries no data (None)
NoData == <<0>>

notDiffVars == <<coreVars, srvVars, storeVars, historyVars, serverVars, poolVars,
                 transferVars, rejoinVars, resumeVars>>

\* hashlib.sha256(chunk_data).hexdigest(): equal for equal data only
sha256(chunk_data) == Checksum("sha256", chunk_data)

\* f.seek(offset); f.read(size): what the file holds there, less at its end
ReadAt(bytes, offset, size) == SubSeq(bytes, offset + 1, Min(offset + size, Len(bytes)))

\* a chunk that always has the full size
ChunkAt_FullSize(bytes, offset) ==
    [offset |-> offset, size |-> chunk_size,
     checksum |-> sha256(ReadAt(bytes, offset, chunk_size)), data |-> NoData]
\* create_signature, lines 63-74: the FileChunk made of one f.read(chunk_size)
ChunkAt(bytes, offset) ==
    LET chunk_data == ReadAt(bytes, offset, chunk_size) IN
    [offset |-> offset, size |-> Len(chunk_data),
     checksum |-> sha256(chunk_data), data |-> NoData]

\* create_signature, lines 60-74: the loop from an offset to the end
RECURSIVE ChunksFrom(_, _)
ChunksFrom(bytes, offset) ==
    IF offset >= Len(bytes) THEN <<>>
    ELSE <<ChunkAt(bytes, offset)>> \o ChunksFrom(bytes, offset + chunk_size)

\* create_signature(file_path) (lines 53-77); OSError gives the empty list
create_signature(bytes, readable) ==
    IF readable THEN ChunksFrom(bytes, 0) ELSE <<>>

RECURSIVE SumSizes(_)
SumSizes(chunks) ==
    IF chunks = <<>> THEN 0 ELSE Head(chunks).size + SumSizes(Tail(chunks))

\* create_delta(source_file, target_signature) (lines 79-114).  A chunk
\* whose checksum the signature holds is unchanged; another one is loaded
\* and is changed, or is unchanged when loading it raises OSError.  The
\* ratio changed_size / total_size is kept as the pair of the two numbers.
create_delta(bytes, readable, loadable, target_signature) ==
    LET source_chunks == create_signature(bytes, readable)
        target_checksums == {target_signature[i].checksum : i \in DOMAIN target_signature}
        same(c) == c.checksum \in target_checksums \/ ~loadable
        unchanged_chunks == SelectSeq(source_chunks, same)
        loaded == [i \in DOMAIN source_chunks |->
                     [source_chunks[i] EXCEPT
                        !.data = ReadAt(bytes, source_chunks[i].offset, source_chunks[i].size)]]
        changed_chunks == SelectSeq(loaded, LAMBDA c : ~same(c))
        total_size == SumSizes(source_chunks)
        changed_size == SumSizes(changed_chunks)
    IN [pc |-> "made",
        unchanged_chunks |-> unchanged_chunks,
        changed_chunks |-> changed_chunks,
        total_size |-> total_size,
        compression_ratio |-> IF total_size > 0 THEN <<changed_size, total_size>>
                              ELSE <<1, 1>>]

\* the chunks left in the order of the two lists
SortByOffset_Unsorted(chunks) == chunks
\* all_chunks.sort(key=lambda x: x.offset) (line 126); the offsets differ
SortByOffset(chunks) ==
    [i \in 1..Len(chunks) |->
        CHOOSE c \in Range(chunks) :
            Cardinality({d \in Range(chunks) : d.offset < c.offset}) = i - 1]

\* apply_delta, lines 128-139: what one chunk adds to the output file
ChunkBytes(chunk, source) ==
    IF chunk.data # NoData THEN chunk.data
    ELSE ReadAt(source, chunk.offset, chunk.size)

RECURSIVE WriteChunks(_, _)
WriteChunks(chunks, source) ==
    IF chunks = <<>> THEN <<>>
    ELSE ChunkBytes(Head(chunks), source) \o WriteChunks(Tail(chunks), source)

\* where an I/O operation of apply_delta may fail
ApplyFailures == {"none", "open_temp", "write_changed", "read_source", "replace"}

\* the first chunk of all_chunks the failure hits, 0 when there is none
FirstHit(all_chunks, failure) ==
    LET hit == {i \in DOMAIN all_chunks :
                  \/ failure = "write_changed" /\ all_chunks[i].data # NoData
                  \/ failure = "read_source" /\ all_chunks[i].data = NoData}
    IN IF hit = {} THEN 0 ELSE CHOOSE i \in hit : \A j \in hit : i <= j

\* create_signature of the reference file, or of the file itself
MakeSignature(of, readable) ==
    /\ signature.of = "none"
    /\ signature' = [of |-> of, read |-> readable,
                     chunks |-> create_signature(IF of = "A" THEN fileA ELSE fileB,
                                                 readable)]
    /\ UNCHANGED <<fileA, fileB, target_file, temp_file, delta, applied, notDiffVars>>

\* create_delta of file A against the signature; at most one of the reads
\* of a run fails
MakeDelta(readable, loadable) ==
    /\ signature.of # "none"
    /\ delta.pc = "none"
    /\ (readable /\ loadable) \/ (signature.read /\ (readable \/ loadable))
    /\ delta' = [create_delta(fileA, readable, loadable, signature.chunks)
                   EXCEPT !.pc = IF readable /\ loadable THEN "made" ELSE "misread"]
    /\ UNCHANGED <<fileA, fileB, target_file, temp_file, signature, applied, notDiffVars>>

\* apply_delta(target_file, delta, source_file) (lines 116-151), source_file
\* being file A or the reference file.  The temporary file is opened and
\* written chunk by chunk.  A failure to open it, to write a changed chunk
\* or to replace the target is caught by the outer handler, which unlinks
\* the temporary file; a failure at an unchanged chunk is caught by the
\* inner handler (lines 140-141), which returns False at once.
ApplyDelta(source, failure) ==
    /\ delta.pc # "none"
    /\ applied.pc = "none"
    /\ failure # "none" => delta.pc = "made" /\ signature.read
    /\ LET all_chunks == SortByOffset(delta.unchanged_chunks \o delta.changed_chunks)
           src == IF source = "A" THEN fileA ELSE fileB
           k == FirstHit(all_chunks, failure)
       IN /\ failure \in {"write_changed", "read_source"} => k # 0
          /\ IF failure = "none"
             THEN /\ target_file' = WriteChunks(all_chunks, src)
                  /\ temp_file' = Absent
             ELSE /\ target_file' = target_file
                  /\ temp_file' = IF failure = "read_source"
                                  THEN WriteChunks(SubSeq(all_chunks, 1, k - 1), src)
                                  ELSE Absent
          /\ applied' = [pc |-> "returned", source |-> source, failure |-> failure,
                         before |-> target_file, returned |-> (failure = "none")]
    /\ UNCHANGED <<fileA, fileB, signature, delta, notDiffVars>>

\* SpecDiff: any two files, the target absent or holding an older file.
InitDiff ==
    /\ xxhash = FALSE
    /\ sync_root = [c \in Clients |-> "missing"]
    /\ srvDisk = NoFiles
    /\ srvMtime = NoTimes
    /\ cliDisk = [c \in Clients |-> NoFiles]
    /\ cliMtime = [c \in Clients |-> NoTimes]
    /\ srvMeta = {}
    /\ upload_log = {}
    /\ active_connections = {}
    /\ wsInbox = [c \in Clients |-> {}]
    /\ InitSyncIdle
    /\ InitEngine
    /\ InitClient
    /\ InitBackoffIdle
    /\ InitHandlerIdle
    /\ InitManagerIdle
    /\ InitServerIdle
    /\ InitRejoinIdle
    /\ InitResumeIdle
    /\ fileA \in ByteFiles
    /\ fileB \in ByteFiles
    /\ target_file \in {Absent, <<2, 1>>}
    /\ temp_file = Absent
    /\ signature = NoSignature
    /\ delta = NoDelta
    /\ applied = NotApplied

NextDiff ==
    \/ \E of \in {"A", "B"}, readable \in BOOLEAN : MakeSignature(of, readable)
    \/ \E readable, loadable \in BOOLEAN : MakeDelta(readable, loadable)
    \/ \E source \in {"A", "B"}, failure \in ApplyFailures : ApplyDelta(source, failure)

SpecDiff == InitDiff /\ [][NextDiff]_vars

\* --------------------------------------- the hub, connection by connection
\* WebSocketManager.active_connections when a client connects again under
\* its client_id (websocket_manager.py:25-37, 177-197).
\* Number of connections the hub accepts in one behaviour.
MaxEndpoints == 4

notRejoinVars == <<coreVars, srvVars, storeVars, historyVars, serverVars, poolVars,
                   transferVars, diffVars, resumeVars>>

\* the endpoints of client c, in order of accept
EndpointsOf(c) == {i \in DOMAIN endpoints : endpoints[i].client = c}

\* websocket_endpoint up to its loop: connect() accepts the socket and
\* stores it under the client_id (lines 25-29, 179).  The engine opens a
\* transport after it has closed the one it had (sync_engine.py:662-672).
EndpointAccept(c) ==
    /\ Len(endpoints) < MaxEndpoints
    /\ \A i \in EndpointsOf(c) : endpoints[i].peer = "closed"
    /\ endpoints' = Append(endpoints, [client |-> c, peer |-> "open", pc |-> "running"])
    /\ connection_of' = [connection_of EXCEPT ![c] = Len(endpoints) + 1]
    /\ UNCHANGED notRejoinVars

\* the client closes the transport, or the link is lost
PeerCloses(i) ==
    /\ i \in DOMAIN endpoints
    /\ endpoints[i].peer = "open"
    /\ endpoints' = [endpoints EXCEPT ![i].peer = "closed"]
    /\ UNCHANGED <<connection_of, notRejoinVars>>

\* the keys the finally clause leaves: disconnect(client_id) deletes the
\* key whatever socket it holds (lines 31-37), and the client_left
\* broadcast unregisters every other client the send to which fails
\* (lines 99-112)
AfterDisconnect(c) ==
    [d \in Clients |->
        IF d = c THEN 0
        ELSE IF connection_of[d] # 0 /\ endpoints[connection_of[d]].peer = "closed"
        THEN 0
        ELSE connection_of[d]]

\* websocket_endpoint of the i-th connection after its peer has closed:
\* receive_text raises WebSocketDisconnect and the finally clause runs
\* (lines 188-197)
EndpointEnds(i) ==
    /\ i \in DOMAIN endpoints
    /\ endpoints[i].pc = "running"
    /\ endpoints[i].peer = "closed"
    /\ endpoints' = [endpoints EXCEPT ![i].pc = "done"]
    /\ connection_of' = AfterDisconnect(endpoints[i].client)
    /\ UNCHANGED notRejoinVars

\* SpecRejoin: a hub nobody is connected to.
InitRejoin ==
    /\ xxhash = FALSE
    /\ sync_root = [c \in Clients |-> "missing"]
    /\ srvDisk = NoFiles
    /\ srvMtime = NoTimes
    /\ cliDisk = [c \in Clients |-> NoFiles]
    /\ cliMtime = [c \in Clients |-> NoTimes]
    /\ srvMeta = {}
    /\ upload_log = {}
    /\ active_connections = {}
    /\ wsInbox = [c \in Clients |-> {}]
    /\ InitSyncIdle
    /\ InitEngine
    /\ InitClient
    /\ InitBackoffIdle
    /\ InitHandlerIdle
    /\ InitManagerIdle
    /\ InitServiceIdle

NextRejoin ==
    \/ \E c \in Clients : EndpointAccept(c)
    \/ \E i \in 1..MaxEndpoints : PeerCloses(i)
    \/ \E i \in 1..MaxEndpoints : EndpointEnds(i)

SpecRejoin == InitRejoin /\ [][NextRejoin]_vars

\* ----------------------------------------- download_file, byte by byte
\* One download_file call (sync_engine.py:436-477) against the download
\* handler (main.py:170-229), the two files being any bytes.
notResumeVars == <<coreVars, srvVars, storeVars, historyVars, serverVars, poolVars,
                   transferVars, diffVars, rejoinVars>>

\* download_file(p) is called, resume defaults to True
GetCall ==
    /\ get.pc = "idle"
    /\ get' = [get EXCEPT !.pc = "request"]
    /\ UNCHANGED <<local_bytes, server_bytes, notResumeVars>>

\* One GET of the call and what download_file does with the response:
\* "Range: bytes=<size>-" and mode "ab" when resume is set and the local
\* file exists, else no header and mode "wb" (lines 446-452); 200 and 206
\* are written (lines 456-459), 404 is logged, 416 of a resuming call
\* calls download_file(resume=False), any other status raises.
GetRequest(failure) ==
    /\ get.pc = "request"
    /\ get.requests < MaxRequests
    /\ LET start == IF get.resume /\ local_bytes # Absent THEN Len(local_bytes)
                    ELSE NoRange
           ans == IF failure # {} THEN CHOOSE a \in failure : TRUE
                  ELSE IF server_bytes = Absent THEN [status |-> 404, body |-> <<>>]
                  ELSE RangeAnswer(server_bytes, start)
       IN /\ local_bytes' = IF ans.status \notin {HTTP_OK, 206} THEN local_bytes
                            ELSE IF start = NoRange THEN ans.body
                            ELSE local_bytes \o ans.body
          /\ get' = [pc |-> IF ans.status \in {HTTP_OK, 206, 404} THEN "done"
                            ELSE IF ans.status = 416 /\ get.resume THEN "request"
                            ELSE "raised",
                     resume |-> IF ans.status = 416 /\ get.resume THEN RetryResume
                                ELSE get.resume,
                     requests |-> get.requests + 1,
                     status |-> ans.status]
    /\ UNCHANGED <<server_bytes, notResumeVars>>

\* SpecResume: any file on the server, any file or none at the client.
InitResume ==
    /\ xxhash = FALSE
    /\ sync_root = [c \in Clients |-> "missing"]
    /\ srvDisk = NoFiles
    /\ srvMtime = NoTimes
    /\ cliDisk = [c \in Clients |-> NoFiles]
    /\ cliMtime = [c \in Clients |-> NoTimes]
    /\ srvMeta = {}
    /\ upload_log = {}
    /\ active_connections = {}
    /\ wsInbox = [c \in Clients |-> {}]
    /\ InitSyncIdle
    /\ InitEngine
    /\ InitClient
    /\ InitBackoffIdle
    /\ InitHandlerIdle
    /\ InitManagerIdle
    /\ InitServerIdle
    /\ InitDiffIdle
    /\ InitRejoinIdle
    /\ local_bytes \in ByteFiles \cup {Absent}
    /\ server_bytes \in ByteFiles \cup {Absent}
    /\ get = NoGet

NextResume ==
    \/ GetCall
    \/ \E failure \in {{}} \cup {{a} : a \in Failures} : GetRequest(failure)

SpecResume == InitResume /\ [][NextResume]_vars

\* ================================================================ claims
\* ------------------------------------------------------------ under Spec
\* C1: every file that is in the client's manifest and absent from the
\* server's manifest when perform_initial_sync is called has, once
\* perform_initial_sync has returned without error, been uploaded to the
\* server, and the server's manifest holds an entry for its path with the
\* client's checksum.
C1_ClientOnlyFilesReachServer ==
    \A c \in Clients :
        syncPc[c] = "done" =>
            \A f \in local_files[c] :
                f.path \notin PathsOf(server_files[c]) =>
                    /\ \E u \in upload_log : u.client = c /\ u.path = f.path
                    /\ \E m \in srvMeta : m.path = f.path /\ m.checksum = f.checksum

\* C2: during perform_initial_sync the client never uploads a path that the
\* sync response lists in conflicts.
C2_ConflictsAreNotUploaded ==
    \A u \in upload_log : u.path \notin conflicts[u.client]

\* C3: every file of the server's manifest that the client neither lists
\* nor holds is in files_to_sync, and once perform_initial_sync has
\* returned without error the client has downloaded it and the checksum of
\* the local file equals the server's checksum for that path.
C3_ServerOnlyFilesReachClient ==
    \A c \in Clients :
        \A sf \in server_files[c] :
            sf.path \notin PathsOf(local_files[c]) =>
                /\ syncPc[c] # "idle" => sf \in files_to_sync[c]
                /\ syncPc[c] = "done" =>
                      /\ sf.path \in downloaded[c]
                      /\ \A m \in srvMeta : m.path = sf.path =>
                            Checksum(ClientAlg, cliDisk[c][sf.path]) = m.checksum

\* perform_initial_sync of client c holds the server's plan
Planned(c) == syncPc[c] \in {"downloads", "uploads", "done"}

\* C14: a path in both manifests with differing checksums and a strictly
\* newer server modified_time is in conflicts and not in files_to_sync.
C14_NewerServerIsConflict ==
    \A c \in Clients : Planned(c) =>
        \A cf \in local_files[c], sf \in server_files[c] :
            (/\ cf.path = sf.path
             /\ cf.checksum # sf.checksum
             /\ sf.modified_time > cf.modified_time)
            => (/\ cf.path \in conflicts[c]
                /\ cf.path \notin PathsOf(files_to_sync[c]))

C14_Witness ==
    \E c \in Clients :
        /\ Planned(c)
        /\ \E cf \in local_files[c], sf \in server_files[c] :
              /\ cf.path = sf.path
              /\ cf.checksum # sf.checksum
              /\ sf.modified_time > cf.modified_time

\* C15: a path in exactly one of the two manifests is in files_to_sync and
\* not in conflicts.
C15_OneSidedIsToSync ==
    \A c \in Clients : Planned(c) =>
        \A p \in Paths :
            ((p \in PathsOf(local_files[c])) # (p \in PathsOf(server_files[c])))
            => (/\ p \in PathsOf(files_to_sync[c])
                /\ p \notin conflicts[c])

\* one path only the client lists, another only the server lists
C15_Witness ==
    \E c \in Clients :
        /\ Planned(c)
        /\ PathsOf(local_files[c]) \ PathsOf(server_files[c]) # {}
        /\ PathsOf(server_files[c]) \ PathsOf(local_files[c]) # {}

\* C16: a path in both manifests with differing checksums and equal
\* modified_time is neither in conflicts nor in files_to_sync.
C16_EqualTimeIsInSync ==
    \A c \in Clients : Planned(c) =>
        \A cf \in local_files[c], sf \in server_files[c] :
            (/\ cf.path = sf.path
             /\ cf.checksum # sf.checksum
             /\ sf.modified_time = cf.modified_time)
            => (/\ cf.path \notin conflicts[c]
                /\ cf.path \notin PathsOf(files_to_sync[c]))

\* C17: the plan lists each path at most once over files_to_sync and
\* conflicts together.
C17_PlanPathsUnique ==
    \A c \in Clients : Planned(c) =>
        \A p \in Paths :
            Cardinality({f \in files_to_sync[c] : f.path = p})
              + (IF p \in conflicts[c] THEN 1 ELSE 0) <= 1

\* a plan with a conflict, and another path to sync, from two manifests
\* that share a path
C17_Witness ==
    \E c \in Clients :
        /\ Planned(c)
        /\ conflicts[c] # {}
        /\ files_to_sync[c] # {}
        /\ Cardinality(local_files[c]) = 2
        /\ Cardinality(server_files[c]) = 2

\* ------------------------------------------------------ under SpecNotify
\* C4: after the server has taken an upload of path p from client A, every
\* other client connected to the message channel at that moment receives a
\* "file_updated" notification for p and, on handling it, downloads p.
C4_UploadIsFannedOut ==
    \A u \in upload_log :
        \A b \in u.peers :
            \/ \E m \in wsInbox[b] : m.type = "file_updated" /\ m.top_path = u.path
            \/ u.path \in downloaded[b]

\* The steps at which a task of the engine observes a failed transport.
HeartbeatObserves ==
    heartbeat_task = "sending" /\ conn[hbWs] # "open" /\ heartbeat_task' = "done"
ListenObserves ==
    \E w \in 1..MaxConns :
        listen[w] = "running" /\ conn[w] # "open" /\ listen'[w] = "done"
SendObserves ==
    \E s \in 1..NumSenders :
        sendPc[s] = "sending" /\ conn[sendWs[s]] # "open" /\ sendPc'[s] = "idle"

\* C5: whenever the heartbeat loop, the receive loop or a send observes a
\* transport error or a closed connection while should_reconnect is true
\* and fewer than max_reconnect_attempts attempts were made, a reconnect
\* task is scheduled by that step.
C5_FailureSchedulesReconnect ==
    [][(/\ should_reconnect
        /\ reconnect_attempts < max_reconnect_attempts
        /\ (HeartbeatObserves \/ ListenObserves \/ SendObserves))
       => reconnect_task' = "scheduled"]_vars

\* C6: once start() has returned, a connection that is up (connected,
\* open, handshake done, receive loop running) also has a heartbeat loop
\* running.
C6_ConnectedHasHeartbeatAndListener ==
    (/\ apiPc = "running"
     /\ is_connected
     /\ websocket # 0
     /\ conn[websocket] = "open"
     /\ connecting = [k \in {"api", "reconnect"} |-> 0])
    => (listen[websocket] = "running" /\ HeartbeatActive)

\* The engine has given up: the last permitted attempt was made and
\* failed, no reconnect task is pending.
GaveUp ==
    /\ reconnect_attempts = max_reconnect_attempts
    /\ ~ReconnectActive

\* C7: once the attempt counter stands at max_reconnect_attempts no
\* reconnect task is scheduled any more, and once the last attempt has
\* failed the engine stays disconnected and opens no transport, until
\* force_reconnect is called.
C7_GivesUpAfterMaxAttempts ==
    [][/\ (reconnect_attempts = max_reconnect_attempts /\ apiPc' \notin ForceStates)
          => reconnect_task' # "scheduled"
       /\ (GaveUp /\ apiPc' \notin ForceStates)
          => (/\ ~is_connected /\ ~is_connected'
              /\ GaveUp'
              /\ \A w \in 1..MaxConns : conn'[w] = "open" => conn[w] = "open")]_vars

\* a failure is observed after the engine gave up, and nothing is scheduled
C7_Witness ==
    /\ GaveUp
    /\ should_reconnect
    /\ apiPc = "running"
    /\ \E w \in 1..MaxConns : listen[w] = "done" /\ conn[w] = "closedErr"

\* C8: from the moment stop() has closed the transport, no reconnect
\* fires: no transport is opened, no reconnect task is pending and
\* is_connected stays false.
C8_NoReconnectAfterStop ==
    [][apiPc' \in {"stop_session", "stopped"}
       => (/\ ~is_connected'
           /\ ~ReconnectActive'
           /\ \A w \in 1..MaxConns : conn'[w] = "open" => conn[w] = "open")]_vars

\* stop() has returned; it closed the transport that a reconnect attempt
\* had opened after earlier failures
C8_Witness ==
    /\ apiPc = "stopped"
    /\ reconnect_task = "done"
    /\ websocket > 1
    /\ conn[websocket] = "closedOK"
    /\ \E s \in 1..NumSenders : sendPc[s] = "sending"

\* C9: at the step of stop() that closes the transport, the heartbeat
\* task, the reconnect task and every receive loop have finished.
C9_TasksFinishedBeforeClose ==
    [][(apiPc = "stop_close" /\ apiPc' = "stop_session")
       => (/\ ~HeartbeatActive
           /\ ~ReconnectActive
           /\ \A w \in 1..MaxConns : listen[w] # "running")]_vars

\* C10: no two tasks of the engine are inside a send on the same
\* transport at the same moment.
C10_SendsAreSerialized ==
    /\ \A s \in 1..NumSenders :
          ~(heartbeat_task = "sending" /\ sendPc[s] = "sending" /\ sendWs[s] = hbWs)
    /\ \A s, t \in 1..NumSenders :
          (s # t /\ sendPc[s] = "sending" /\ sendPc[t] = "sending")
          => sendWs[s] # sendWs[t]

\* C11: a stop() on a client whose stop() has completed raises no error
\* and changes nothing of the stopped state of the engine and the watcher.
C11_StopIsIdempotent ==
    [][/\ ~stop_raised'
       /\ ((stop_again' /\ apiPc' \in StopStates \cup {"stopped"} /\ apiPc' # apiPc)
           => UNCHANGED <<is_connected, should_reconnect, reconnect_task,
                          heartbeat_task, conn, websocket, watcherVars>>)]_vars

\* the second stop() of a client that ran with its watcher has returned
C11_Witness ==
    /\ stop_again
    /\ apiPc = "stopped"
    /\ observer = "stopped"
    /\ heartbeat_task = "done"
    /\ reconnect_task = "done"
    /\ websocket # 0

\* C12: for attempts 1..10 the delay before jitter is min(60, 2^(attempt-1))
\* seconds, and no earlier attempt has a longer delay.
C12_BackoffDelay ==
    (reconnect_task = "sleeping" /\ reconnect_attempts \in 1..max_reconnect_attempts)
    => /\ delay = Min(60, 2 ^ (reconnect_attempts - 1))
       /\ \A m \in 1..reconnect_attempts : reconnect_delay(m) <= delay

\* the tenth attempt sleeps, its delay capped
C12_Witness ==
    /\ reconnect_task = "sleeping"
    /\ reconnect_attempts = max_reconnect_attempts
    /\ delay = 60
    /\ jittered_delay > 6000

\* the events on path p, and the callbacks for it
EventsOn(p) == SelectSeq(event_log, LAMBDA e : e.path = p)
CallbacksFor(p) == SelectSeq(callbacks, LAMBDA c : c.path = p)

\* C13: when three modify events on one path occurred within one second
\* and their tasks have finished, sync_callback was called exactly once for
\* the path, with the file's final state.
C13_ThreeModifiesOneCallback ==
    \A p \in Paths :
        (/\ Len(EventsOn(p)) = 3
         /\ \A i \in 1..3 : EventsOn(p)[i].operation = "update"
         /\ EventsOn(p)[3].time - EventsOn(p)[1].time < rapid_window
         /\ \A t \in tasks : t.path # p)
        => (/\ Len(CallbacksFor(p)) = 1
            /\ CallbacksFor(p)[1].version = watched[p])

\* C18: a finished broadcast_to_others made no send to the sender and made
\* a send to every other client that was registered when it was called.
C18_BroadcastReachesOthers ==
    bc.pc = "done" =>
        /\ bc.origin \notin attempted
        /\ Range(bc.start) \ {bc.origin} \subseteq attempted

\* a broadcast from a registered sender to two others has finished
C18_Witness ==
    /\ bc.pc = "done"
    /\ bc.origin \in Range(bc.start)
    /\ Cardinality(attempted) = 2

\* the clients whose send in the broadcast failed
FailedSends == {bc.tasks[i] : i \in {j \in 1..Len(bc.tasks) : bc.results[j] = "exception"}}

\* C19: a finished broadcast has not raised and has unregistered exactly
\* the clients whose send failed.
C19_UnregistersExactlyFailed ==
    bc.pc = "done" =>
        /\ ~bc_raised
        /\ unregistered = FailedSends

\* C20: a receiver that gets a malformed or unknown message over a working
\* connection keeps its receive loop, and the server keeps the client
\* registered.
C20_BadMessageKeepsConnection ==
    [][/\ \A c \in HubClients :
             (srv_dropped'[c] > srv_dropped[c] /\ sock[c] = "open")
             => (srv_loop'[c] = "running" /\ c \in Range(registry'))
       /\ cli_dropped' > cli_dropped => cli_loop' = "running"]_vars


\* ------------------------------------------------------ under SpecStore
\* C21: after update_file_metadata or batch_update_file_metadata for a
\* path has completed, the next get_file_metadata of that path returns
\* the row that was written, also when an older value was cached within
\* its TTL.
C21_ReadAfterUpdate ==
    got.last \in {"update", "batch"} => got.info = got.row

\* C22: after remove_file_metadata of a path has completed, the next
\* get_file_metadata of that path returns None, also when an entry was
\* cached within its TTL.
C22_ReadAfterRemove ==
    got.last = "remove" => got.info = {}

\* C23: get_file_metadata never serves a cache entry whose age is at or
\* beyond the TTL, and what it returns is what it would return with the
\* cache cleared: the row of the durable table.
C23_CacheIsDroppable ==
    /\ got.age # -1 => got.age < cache_ttl
    /\ got.path # "none" => got.info = got.row


\* ---------------------------------------------------- under SpecHistory
\* the clients whose upload of the path the server has stored
Uploaders(p) == {u.client : u \in {v \in upload_log : v.path = p}}

\* C24: when two clients with distinct ids have each uploaded the same
\* path within the trailing hour, get_conflicts lists the path.  (Before
\* the first hour is over every upload so far lies within the window.)
C24_UploadConflictListed ==
    \A p \in Paths :
        (store_time < conflict_window /\ Cardinality(Uploaders(p)) >= 2)
            => p \in get_conflicts


\* ----------------------------------------------------- under SpecServer
\* C25: the ClientInfo record of a client is removed on disconnect: when
\* the connection of a client has ended (the client has left
\* active_connections), the server holds no ClientInfo for its client_id.
C25_RecordRemovedOnDisconnect ==
    [][\A c \in HubClients :
          (c \in Range(registry) /\ c \notin Range(registry'))
              => c \notin clients']_vars


\* ----------------------------------------------------- under SpecDelete
\* C26: every DELETE /files request for a path, the first and the one
\* that finds file and row already absent, is answered with success, and
\* after each answer the file and its row are absent.
C26_DeleteIsIdempotent ==
    [][\A p \in Paths :
          delete_calls'[p] > delete_calls[p]
              => /\ del_call'.status = HTTP_OK
                 /\ srvDisk'[p] = NoFile
                 /\ ServerFile(srvMeta', p) = {}]_vars



\* --------------------------------------------------- under SpecDownload
\* C27: one download_file call sends at most two requests; a second
\* request is sent only after a 416 to the resuming first one, exactly
\* once, and asks for the full file (no Range header); and the call
\* always ends, whatever the answers are.
C27_OneFullRetry ==
    /\ [](/\ dl.requests <= 2
          /\ dl.retries <= 1
          /\ dl.requests = 2 => (dl.retries = 1 /\ dl.range = NoRange))
    /\ (dl.pc = "request") ~> (dl.pc \in {"done", "raised"})
C27_Witness ==
    /\ dl.requests = 2
    /\ dl.retries = 1
    /\ dl.pc = "done"
    /\ cliDisk["A"][dl.path] = srvDisk[dl.path]


\* ------------------------------------------------------- under SpecPool
\* C30: at no moment are more than db_pool_size connections open or in
\* use; a caller that finds every connection in use has to wait.
C30_PoolIsBounded ==
    /\ OpenConnections <= db_pool_size
    /\ Cardinality(db_held) <= db_pool_size


\* ------------------------------------------------------- under SpecBulk
\* C28: during perform_initial_sync never more than three downloads and
\* never more than three uploads are in flight, however many files the
\* plan has.
C28_ThreeInFlight ==
    /\ Cardinality(Running(dtask)) <= sync_concurrency
    /\ Cardinality(Running(utask)) <= sync_concurrency
C28_Witness ==
    /\ Cardinality(Running(dtask)) = sync_concurrency
    /\ \E f \in Files : dtask[f] = "waiting"

\* C29: a file's failure does not keep the other files of the batch from
\* being transferred: once perform_initial_sync has ended and no task is
\* left, every file of the plan has been downloaded or uploaded, or has
\* failed itself.
C29_FailureDoesNotAbortBatch ==
    (bulk_pc \in {"done", "raised"} /\ Pending(dtask) = {} /\ Pending(utask) = {})
        => /\ \A f \in bulk_downloads : dtask[f] \in {"ok", "failed"}
           /\ \A f \in bulk_uploads : utask[f] \in {"ok", "failed"}


\* ------------------------------------------------------- under SpecConn
\* the transports that are open
OpenTransports == {w \in 1..MaxConns : conn[w] = "open"}

\* C35: at every moment the engine has at most one open transport and at
\* most one receive loop running on an open transport; a transport that
\* is no longer self.websocket is closed.
C35_OneTransportOneLoop ==
    /\ Cardinality(OpenTransports) <= 1
    /\ Cardinality({w \in OpenTransports : listen[w] = "running"}) <= 1
    /\ \A w \in OpenTransports : w = websocket

\* C39: the attempt counter stays within 0..max_reconnect_attempts.
C39_AttemptsInRange ==
    reconnect_attempts \in 0..max_reconnect_attempts
C39_Witness ==
    /\ reconnect_attempts = max_reconnect_attempts
    /\ reconnect_task = "sleeping"

\* ------------------------------------------------------ under SpecWatch
\* C38: once the tasks of a path have all finished, no pending event remains
\* for the path and its most recent event was committed to the sync
\* callback: the last callback of the path carries the operation of the
\* last event.
C38_LatestEventCommitted ==
    \A p \in Paths :
        (/\ Len(EventsOn(p)) > 0
         /\ \A t \in tasks : t.path # p)
        => /\ pending_events[p].operation = "none"
           /\ Len(CallbacksFor(p)) > 0
           /\ CallbacksFor(p)[Len(CallbacksFor(p))].operation
                  = EventsOn(p)[Len(EventsOn(p))].operation

\* ------------------------------------------------------- under SpecDiff
\* the chunks of a delta, both lists together
DeltaChunks == delta.unchanged_chunks \o delta.changed_chunks

\* C31: apply_delta(out, create_delta(A, create_signature(B)), A) without
\* an I/O failure returns True and leaves at out the bytes of A.
C31_DeltaRoundTrip ==
    (/\ applied.pc = "returned"
     /\ applied.source = "A"
     /\ applied.failure = "none"
     /\ delta.pc = "made")
    => /\ applied.returned
       /\ target_file = fileA
C31_Witness ==
    /\ applied.pc = "returned"
    /\ applied.source = "A"
    /\ applied.returned
    /\ signature.of = "B"
    /\ signature.read
    /\ delta.pc = "made"
    /\ delta.unchanged_chunks # <<>>
    /\ delta.changed_chunks # <<>>
    /\ delta.changed_chunks[1].offset < delta.unchanged_chunks[1].offset
    /\ target_file = fileA

\* C32: create_delta(A, create_signature(A)) has no changed chunk and a
\* compression_ratio of 0.0, for the empty file too.
C32_IdenticalFilesRatioZero ==
    (delta.pc = "made" /\ signature.of = "A" /\ signature.read)
    => /\ delta.changed_chunks = <<>>
       /\ delta.compression_ratio[1] = 0

\* chunks in ascending order of offset
Ascending(chunks) ==
    \A i, j \in DOMAIN chunks : i < j => chunks[i].offset < chunks[j].offset

\* chunks that start at 0, each where the one before it ends, and whose
\* sizes sum to the length
Tiles(chunks, length) ==
    /\ \A i \in DOMAIN chunks :
          chunks[i].offset = IF i = 1 THEN 0
                             ELSE chunks[i - 1].offset + chunks[i - 1].size
    /\ SumSizes(chunks) = length

\* C33: the chunks of a signature are in ascending order of offset and
\* tile the file; the two lists of a delta are in ascending order and
\* their chunks, taken together in order of offset, tile the file.
C33_ChunksTileTheFile ==
    /\ (signature.of # "none" /\ signature.read)
       => /\ Ascending(signature.chunks)
          /\ Tiles(signature.chunks,
                   Len(IF signature.of = "A" THEN fileA ELSE fileB))
    /\ delta.pc = "made"
       => /\ Ascending(delta.unchanged_chunks)
          /\ Ascending(delta.changed_chunks)
          /\ Tiles(SortByOffset(DeltaChunks), Len(fileA))
          /\ delta.total_size = Len(fileA)
C33_Witness ==
    /\ signature.of = "B"
    /\ Len(signature.chunks) = 2
    /\ signature.chunks[2].size < chunk_size
    /\ delta.pc = "made"
    /\ delta.unchanged_chunks # <<>>
    /\ delta.changed_chunks # <<>>
    /\ Len(fileA) = MaxLen

\* C34: an apply_delta call in which an I/O operation failed returned
\* False, left no temporary file and left the target as it was.
C34_FailureLeavesNoTempFile ==
    (applied.pc = "returned" /\ applied.failure # "none")
    => /\ ~applied.returned
       /\ temp_file = Absent
       /\ target_file = applied.before

\* C40: applying create_delta(A, create_signature(B)) with the reference
\* file B as source_file leaves at out the bytes of A.
C40_ReferenceAsSource ==
    (/\ applied.pc = "returned"
     /\ applied.source = "B"
     /\ applied.failure = "none"
     /\ signature.of = "B"
     /\ signature.read
     /\ delta.pc = "made")
    => target_file = fileA

\* ----------------------------------------------------- under SpecRejoin
\* the connection of client c that was accepted last, 0 when there is none
LastAccepted(c) ==
    IF EndpointsOf(c) = {} THEN 0
    ELSE CHOOSE i \in EndpointsOf(c) : \A j \in EndpointsOf(c) : j <= i

\* C36: a client whose most recently accepted connection is still open is
\* a key of active_connections and the key holds that connection.
C36_OpenConnectionIsRegistered ==
    \A c \in Clients :
        (/\ LastAccepted(c) # 0
         /\ endpoints[LastAccepted(c)].peer = "open"
         /\ endpoints[LastAccepted(c)].pc = "running")
        => connection_of[c] = LastAccepted(c)

\* ----------------------------------------------------- under SpecResume
\* C37: when a download_file call has ended with the server's answer 200
\* or 206, the local file holds the bytes of the server's file.
C37_DownloadedFileEqualsServer ==
    (get.pc = "done" /\ get.status \in {HTTP_OK, 206})
    => local_bytes = server_bytes

====
